---- MODULE Spec2Model ----
(***************************************************************************)
(* Skill-tracker: the in-memory skill hierarchy engine (app/routers/       *)
(* skills.py, app/routers/counters.py, app/utils/validation.py,            *)
(* app/main.py) as a state machine.                                        *)
(*                                                                         *)
(* skills_db and counters_db are Python dicts keyed by integer id.  Keys   *)
(* are only ever inserted with the current value of the id allocator,      *)
(* which grows until both dict and allocator are reset together, so the    *)
(* insertion order of a dict is always the ascending order of its keys;    *)
(* a dict is modelled as a function over a set of ids and "iteration in    *)
(* dict order" as iteration in ascending id order.                         *)
(*                                                                         *)
(* float values are modelled by small integers (their sums are exact).     *)
(***************************************************************************)
EXTENDS Integers, Sequences, FiniteSets, TLC

VARIABLES skills_db, next_skill_id, counters_db, next_counter_id, last

vars == <<skills_db, next_skill_id, counters_db, next_counter_id, last>>

(***************************************************************************)
(* Bounds of the model.                                                    *)
(***************************************************************************)
MaxSkillId == 3
MaxCounterId == 2

(***************************************************************************)
(* Python's None for Optional[int] / Optional[float] fields (None) and    *)
(* for Optional[str] fields (NoneStr), and the sentinel of                 *)
(* SkillUpdate.parent_id.                                                  *)
(***************************************************************************)
None == 0 - 2
NoneStr == "<None>"
PROMOTE_TO_ROOT == 0 - 1

HTTP_201_CREATED == 201
HTTP_200_OK == 200
HTTP_204_NO_CONTENT == 204
HTTP_400_BAD_REQUEST == 400
HTTP_404_NOT_FOUND == 404
HTTP_409_CONFLICT == 409

(***************************************************************************)
(* Input domains.                                                          *)
(***************************************************************************)
Names == {"A", "a", "B"}

SkillIds == 1..(MaxSkillId + 1)
CounterIds == 1..(MaxCounterId + 1)

\* str.lower() on the names of the model
lower(s) == CASE s = "A" -> "a"
              [] s = "B" -> "b"
              [] OTHER -> s

\* ---------------------------------------------------------------------
\* small helpers over sets of integers and dicts
\* ---------------------------------------------------------------------
Max(S) == CHOOSE m \in S : \A x \in S : x <= m
Min(S) == CHOOSE m \in S : \A x \in S : m <= x

RECURSIVE SortedSeq(_)
SortedSeq(S) == IF S = {} THEN <<>> ELSE <<Min(S)>> \o SortedSeq(S \ {Min(S)})

EmptyDict == [k \in {} |-> None]

\* dict with the keys of S removed (del d[k] for k in S)
Without(d, S) == [k \in (DOMAIN d) \ S |-> d[k]]

\* d[k] = v (insert or overwrite)
Put(d, k, v) == [x \in (DOMAIN d) \cup {k} |-> IF x = k THEN v ELSE d[x]]

\* {sid: s.parent_id for sid, s in skills_db.items()}
ParentMap(db) == [k \in DOMAIN db |-> db[k].parent_id]

\* dict.get(k) : None for a missing key
Get(map, k) == IF k \in DOMAIN map THEN map[k] ELSE None

Skill(i, n, p) == [parent_id |-> p, id |-> i, name |-> n]

\* ---------------------------------------------------------------------
\* app/utils/validation.py
\* ---------------------------------------------------------------------
NoError == [err |-> "none", at |-> None]

\* a walk that looks at the proposed parent only and never climbs
cycle_walk_parent_only(skill_id, current, visited, skill_parent_map) ==
    IF current = skill_id THEN [err |-> "cycle", at |-> current] ELSE NoError

\* a walk that gives up after the proposed parent and its parent
cycle_walk_one_level(skill_id, current, visited, skill_parent_map) ==
    IF current = None THEN NoError
    ELSE IF current = skill_id THEN [err |-> "cycle", at |-> current]
    ELSE IF Get(skill_parent_map, current) = skill_id
         THEN [err |-> "cycle", at |-> skill_id]
    ELSE NoError

\* a walk that blames the request for a cycle that is already in the map
RECURSIVE cycle_walk_blames_request(_, _, _, _)
cycle_walk_blames_request(skill_id, current, visited, skill_parent_map) ==
    IF current = None THEN NoError
    ELSE IF current = skill_id \/ current \in visited
         THEN [err |-> "cycle", at |-> current]
    ELSE cycle_walk_blames_request(skill_id, Get(skill_parent_map, current),
                                   visited \cup {current}, skill_parent_map)

\* the while loop of validate_no_cycle
RECURSIVE cycle_walk(_, _, _, _)
cycle_walk(skill_id, current, visited, skill_parent_map) ==
    IF current = None THEN NoError
    ELSE IF current = skill_id THEN [err |-> "cycle", at |-> current]
    ELSE IF current \in visited THEN [err |-> "existing_cycle", at |-> current]
    ELSE cycle_walk(skill_id, Get(skill_parent_map, current),
                    visited \cup {current}, skill_parent_map)

\* a check that knows the self-parent case only
validate_no_cycle_self_only(skill_id, new_parent_id, skill_parent_map) ==
    IF new_parent_id # None /\ skill_id = new_parent_id
    THEN [err |-> "self_parent", at |-> skill_id]
    ELSE NoError

validate_no_cycle(skill_id, new_parent_id, skill_parent_map) ==
    IF new_parent_id = None THEN NoError
    ELSE IF skill_id = new_parent_id THEN [err |-> "self_parent", at |-> skill_id]
    ELSE cycle_walk(skill_id, new_parent_id, {}, skill_parent_map)

\* the while loop of get_ancestors
RECURSIVE ancestors_walk(_, _, _)
ancestors_walk(current, ancestors, skill_parent_map) ==
    IF current = None THEN ancestors
    ELSE ancestors_walk(Get(skill_parent_map, current), ancestors \cup {current},
                        skill_parent_map)

\* the parent alone, without the walk
get_ancestors_parent_only(skill_id, skill_parent_map) ==
    IF Get(skill_parent_map, skill_id) = None THEN {}
    ELSE {Get(skill_parent_map, skill_id)}

\* a walk that starts at the skill and not at its parent
get_ancestors_from_self(skill_id, skill_parent_map) ==
    ancestors_walk(skill_id, {}, skill_parent_map)

get_ancestors(skill_id, skill_parent_map) ==
    ancestors_walk(Get(skill_parent_map, skill_id), {}, skill_parent_map)

\* the direct children only, without the recursion
get_descendants_children_only(skill_id, skill_parent_map) ==
    {k \in DOMAIN skill_parent_map : skill_parent_map[k] = skill_id}

RECURSIVE get_descendants(_, _)
get_descendants(skill_id, skill_parent_map) ==
    UNION { {c} \cup get_descendants(c, skill_parent_map) :
            c \in {k \in DOMAIN skill_parent_map : skill_parent_map[k] = skill_id} }

\* a list of children that stops after the first child
sorted_children_first_only(current_id, skill_parent_map) ==
    LET found == {k \in DOMAIN skill_parent_map : skill_parent_map[k] = current_id}
    IN IF found = {} THEN <<>> ELSE <<Min(found)>>

\* children = [child_id for child_id, parent_id in map.items()
\*             if parent_id == current_id]; children.sort()
sorted_children(current_id, skill_parent_map) ==
    SortedSeq({k \in DOMAIN skill_parent_map : skill_parent_map[k] = current_id})

\* _dfs_helper: what one call appends to result
RECURSIVE dfs_helper(_, _)
RECURSIVE dfs_children(_, _)
dfs_helper(current_id, skill_parent_map) ==
    <<current_id>> \o dfs_children(sorted_children(current_id, skill_parent_map),
                                   skill_parent_map)

\* for child_id in children: _dfs_helper(child_id)
dfs_children(children, skill_parent_map) ==
    IF children = <<>> THEN <<>>
    ELSE dfs_helper(Head(children), skill_parent_map)
         \o dfs_children(Tail(children), skill_parent_map)

\* the while loop of traverse_bfs
RECURSIVE bfs_loop(_, _, _)
bfs_loop(queue, result, skill_parent_map) ==
    IF queue = <<>> THEN result
    ELSE LET current_id == Head(queue)
         IN bfs_loop(Tail(queue) \o sorted_children(current_id, skill_parent_map),
                     Append(result, current_id), skill_parent_map)

\* a depth-first traversal that goes level by level
traverse_dfs_level_order(skill_id, skill_parent_map) ==
    bfs_loop(<<skill_id>>, <<>>, skill_parent_map)

traverse_dfs(skill_id, skill_parent_map) ==
    dfs_helper(skill_id, skill_parent_map)

\* a breadth-first traversal that goes down before it goes across
traverse_bfs_depth_first(skill_id, skill_parent_map) ==
    dfs_helper(skill_id, skill_parent_map)

traverse_bfs(skill_id, skill_parent_map) ==
    bfs_loop(<<skill_id>>, <<>>, skill_parent_map)

\* ---------------------------------------------------------------------
\* app/storage_db.py
\* ---------------------------------------------------------------------
get_next_skill_id(db) == IF DOMAIN db = {} THEN 1 ELSE Max(DOMAIN db) + 1

get_next_counter_id(db) == IF DOMAIN db = {} THEN 1 ELSE Max(DOMAIN db) + 1

\* ---------------------------------------------------------------------
\* app/routers/skills.py
\* ---------------------------------------------------------------------
\* a comparison of the names as they are written
root_name_taken_case_sensitive(db, name) ==
    \E k \in DOMAIN db : db[k].parent_id = None /\ db[k].name = name

\* _validate_unique_root_name: TRUE when it raises the 409
root_name_taken(db, name) ==
    \E k \in DOMAIN db : db[k].parent_id = None /\ lower(db[k].name) = lower(name)

\* what the last request was and what it returned: the operation, the
\* HTTP status, the kind of error, the id the request named or created,
\* and the body of a read
Response(op, status, detail, id, body) ==
    [id |-> id, op |-> op, status |-> status, detail |-> detail, body |-> body]

\* SkillCreate bodies: a name and an optional parent_id
SkillCreateInputs == [parent_id : {None, 1}, name : Names]

\* create_root_skill without "next_skill_id += 1"
create_root_skill_no_increment(skill_data) ==
    IF skill_data.parent_id # None THEN
        /\ last' = Response("create_root_skill", HTTP_400_BAD_REQUEST, "use_children_endpoint", None, None)
        /\ UNCHANGED <<skills_db, next_skill_id, counters_db, next_counter_id>>
    ELSE IF root_name_taken(skills_db, skill_data.name) THEN
        /\ last' = Response("create_root_skill", HTTP_409_CONFLICT, "root_name_exists", None, None)
        /\ UNCHANGED <<skills_db, next_skill_id, counters_db, next_counter_id>>
    ELSE
        /\ skills_db' = Put(skills_db, next_skill_id, Skill(next_skill_id, skill_data.name, None))
        /\ last' = Response("create_root_skill", HTTP_201_CREATED, "", next_skill_id, None)
        /\ UNCHANGED <<next_skill_id, counters_db, next_counter_id>>

create_root_skill(skill_data) ==
    IF skill_data.parent_id # None THEN
        /\ last' = Response("create_root_skill", HTTP_400_BAD_REQUEST, "use_children_endpoint", None, None)
        /\ UNCHANGED <<skills_db, next_skill_id, counters_db, next_counter_id>>
    ELSE IF root_name_taken(skills_db, skill_data.name) THEN
        /\ last' = Response("create_root_skill", HTTP_409_CONFLICT, "root_name_exists", None, None)
        /\ UNCHANGED <<skills_db, next_skill_id, counters_db, next_counter_id>>
    ELSE
        /\ next_skill_id <= MaxSkillId
        /\ skills_db' = Put(skills_db, next_skill_id, Skill(next_skill_id, skill_data.name, None))
        /\ next_skill_id' = next_skill_id + 1
        /\ last' = Response("create_root_skill", HTTP_201_CREATED, "", next_skill_id, None)
        /\ UNCHANGED <<counters_db, next_counter_id>>

\* SkillUpdate bodies: parent_id_set tells whether the parent_id field was
\* present in the request (model_dump(exclude_unset=True)); renames alone,
\* and requests with a parent_id field with or without the new name "a"
SkillUpdateInputs ==
    [parent_id : {None}, name : Names, parent_id_set : {FALSE}]
    \cup [parent_id : {None, PROMOTE_TO_ROOT} \cup SkillIds,
          name : {NoneStr, "a"}, parent_id_set : {TRUE}]
    \cup [parent_id : {None}, name : {NoneStr}, parent_id_set : {FALSE}]

\* create_subskill with the check of the body's parent_id made first
create_subskill_body_first(parent_id, skill_data) ==
    IF skill_data.parent_id # None /\ skill_data.parent_id # parent_id THEN
        /\ last' = Response("create_subskill", HTTP_400_BAD_REQUEST, "parent_id_mismatch", None, None)
        /\ UNCHANGED <<skills_db, next_skill_id, counters_db, next_counter_id>>
    ELSE IF parent_id \notin DOMAIN skills_db THEN
        /\ last' = Response("create_subskill", HTTP_404_NOT_FOUND, "parent_not_found", None, None)
        /\ UNCHANGED <<skills_db, next_skill_id, counters_db, next_counter_id>>
    ELSE
        /\ next_skill_id <= MaxSkillId
        /\ skills_db' = Put(skills_db, next_skill_id, Skill(next_skill_id, skill_data.name, parent_id))
        /\ next_skill_id' = next_skill_id + 1
        /\ last' = Response("create_subskill", HTTP_201_CREATED, "", next_skill_id, None)
        /\ UNCHANGED <<counters_db, next_counter_id>>

\* create_subskill with the arguments of the cycle check exchanged
create_subskill_swapped_check(parent_id, skill_data) ==
    LET new_skill_id == next_skill_id
        temp_skill == Skill(new_skill_id, skill_data.name, parent_id)
        temp_skill_parent_map == Put(ParentMap(skills_db), new_skill_id, parent_id)
        check == validate_no_cycle(parent_id, new_skill_id, temp_skill_parent_map)
    IN
    IF parent_id \notin DOMAIN skills_db THEN
        /\ last' = Response("create_subskill", HTTP_404_NOT_FOUND, "parent_not_found", None, None)
        /\ UNCHANGED <<skills_db, next_skill_id, counters_db, next_counter_id>>
    ELSE IF skill_data.parent_id # None /\ skill_data.parent_id # parent_id THEN
        /\ last' = Response("create_subskill", HTTP_400_BAD_REQUEST, "parent_id_mismatch", None, None)
        /\ UNCHANGED <<skills_db, next_skill_id, counters_db, next_counter_id>>
    ELSE IF check.err # "none" THEN
        /\ last' = Response("create_subskill", HTTP_409_CONFLICT, check.err, check.at, None)
        /\ UNCHANGED <<skills_db, next_skill_id, counters_db, next_counter_id>>
    ELSE
        /\ next_skill_id <= MaxSkillId
        /\ skills_db' = Put(skills_db, new_skill_id, temp_skill)
        /\ next_skill_id' = next_skill_id + 1
        /\ last' = Response("create_subskill", HTTP_201_CREATED, "", new_skill_id, None)
        /\ UNCHANGED <<counters_db, next_counter_id>>

create_subskill(parent_id, skill_data) ==
    LET new_skill_id == next_skill_id
        temp_skill == Skill(new_skill_id, skill_data.name, parent_id)
        temp_skill_parent_map == Put(ParentMap(skills_db), new_skill_id, parent_id)
        check == validate_no_cycle(new_skill_id, parent_id, temp_skill_parent_map)
    IN
    IF parent_id \notin DOMAIN skills_db THEN
        /\ last' = Response("create_subskill", HTTP_404_NOT_FOUND, "parent_not_found", None, None)
        /\ UNCHANGED <<skills_db, next_skill_id, counters_db, next_counter_id>>
    ELSE IF skill_data.parent_id # None /\ skill_data.parent_id # parent_id THEN
        /\ last' = Response("create_subskill", HTTP_400_BAD_REQUEST, "parent_id_mismatch", None, None)
        /\ UNCHANGED <<skills_db, next_skill_id, counters_db, next_counter_id>>
    ELSE IF check.err # "none" THEN
        /\ last' = Response("create_subskill", HTTP_409_CONFLICT, check.err, check.at, None)
        /\ UNCHANGED <<skills_db, next_skill_id, counters_db, next_counter_id>>
    ELSE
        /\ next_skill_id <= MaxSkillId
        /\ skills_db' = Put(skills_db, new_skill_id, temp_skill)
        /\ next_skill_id' = next_skill_id + 1
        /\ last' = Response("create_subskill", HTTP_201_CREATED, "", new_skill_id, None)
        /\ UNCHANGED <<counters_db, next_counter_id>>

\* a reading of the body's parent_id whether the field was sent or not
update_new_parent_id_from_body(existing_skill, skill_data) ==
    IF skill_data.parent_id = PROMOTE_TO_ROOT THEN None
    ELSE skill_data.parent_id

\* the parent the update will write: -1 promotes to root, a parent_id
\* field that is set (even to null) is taken as is, an unset one keeps
\* the current parent
update_new_parent_id(existing_skill, skill_data) ==
    IF skill_data.parent_id = PROMOTE_TO_ROOT THEN None
    ELSE IF skill_data.parent_id_set THEN skill_data.parent_id
    ELSE existing_skill.parent_id

\* update_skill without the check that the new parent exists
update_skill_no_parent_check(skill_id, skill_data) ==
    IF skill_id \notin DOMAIN skills_db THEN
        /\ last' = Response("update_skill", HTTP_404_NOT_FOUND, "skill_not_found", None, None)
        /\ UNCHANGED <<skills_db, next_skill_id, counters_db, next_counter_id>>
    ELSE
    LET existing_skill == skills_db[skill_id]
        new_parent_id == update_new_parent_id(existing_skill, skill_data)
        temp_skill_parent_map == Put(ParentMap(skills_db), skill_id, new_parent_id)
        check == IF new_parent_id # existing_skill.parent_id
                 THEN validate_no_cycle(skill_id, new_parent_id, temp_skill_parent_map)
                 ELSE NoError
        updated_skill == Skill(existing_skill.id,
                               IF skill_data.name # NoneStr THEN skill_data.name
                                                            ELSE existing_skill.name,
                               new_parent_id)
    IN
    IF check.err # "none" THEN
        /\ last' = Response("update_skill", HTTP_409_CONFLICT, check.err, check.at, None)
        /\ UNCHANGED <<skills_db, next_skill_id, counters_db, next_counter_id>>
    ELSE
        /\ skills_db' = Put(skills_db, skill_id, updated_skill)
        /\ last' = Response("update_skill", HTTP_200_OK, "", skill_id, None)
        /\ UNCHANGED <<next_skill_id, counters_db, next_counter_id>>

\* update_skill that leaves the children of a reparented skill behind,
\* under the skill's former parent
update_skill_leaves_children(skill_id, skill_data) ==
    IF skill_id \notin DOMAIN skills_db THEN
        /\ last' = Response("update_skill", HTTP_404_NOT_FOUND, "skill_not_found", None, None)
        /\ UNCHANGED <<skills_db, next_skill_id, counters_db, next_counter_id>>
    ELSE
    LET existing_skill == skills_db[skill_id]
        new_parent_id == update_new_parent_id(existing_skill, skill_data)
        temp_skill_parent_map == Put(ParentMap(skills_db), skill_id, new_parent_id)
        check == IF new_parent_id # existing_skill.parent_id
                 THEN validate_no_cycle(skill_id, new_parent_id, temp_skill_parent_map)
                 ELSE NoError
        updated_skill == Skill(existing_skill.id,
                               IF skill_data.name # NoneStr THEN skill_data.name
                                                            ELSE existing_skill.name,
                               new_parent_id)
    IN
    IF new_parent_id # None /\ new_parent_id \notin DOMAIN skills_db THEN
        /\ last' = Response("update_skill", HTTP_400_BAD_REQUEST, "parent_not_found", None, None)
        /\ UNCHANGED <<skills_db, next_skill_id, counters_db, next_counter_id>>
    ELSE IF check.err # "none" THEN
        /\ last' = Response("update_skill", HTTP_409_CONFLICT, check.err, check.at, None)
        /\ UNCHANGED <<skills_db, next_skill_id, counters_db, next_counter_id>>
    ELSE
        /\ skills_db' = [k \in DOMAIN skills_db |->
                            IF k = skill_id THEN updated_skill
                            ELSE IF skills_db[k].parent_id = skill_id
                                    /\ new_parent_id # existing_skill.parent_id
                            THEN Skill(k, skills_db[k].name, existing_skill.parent_id)
                            ELSE skills_db[k]]
        /\ last' = Response("update_skill", HTTP_200_OK, "", skill_id, None)
        /\ UNCHANGED <<next_skill_id, counters_db, next_counter_id>>

update_skill(skill_id, skill_data) ==
    IF skill_id \notin DOMAIN skills_db THEN
        /\ last' = Response("update_skill", HTTP_404_NOT_FOUND, "skill_not_found", None, None)
        /\ UNCHANGED <<skills_db, next_skill_id, counters_db, next_counter_id>>
    ELSE
    LET existing_skill == skills_db[skill_id]
        new_parent_id == update_new_parent_id(existing_skill, skill_data)
        temp_skill_parent_map == Put(ParentMap(skills_db), skill_id, new_parent_id)
        check == IF new_parent_id # existing_skill.parent_id
                 THEN validate_no_cycle(skill_id, new_parent_id, temp_skill_parent_map)
                 ELSE NoError
        updated_skill == Skill(existing_skill.id,
                               IF skill_data.name # NoneStr THEN skill_data.name
                                                            ELSE existing_skill.name,
                               new_parent_id)
    IN
    IF new_parent_id # None /\ new_parent_id \notin DOMAIN skills_db THEN
        /\ last' = Response("update_skill", HTTP_400_BAD_REQUEST, "parent_not_found", None, None)
        /\ UNCHANGED <<skills_db, next_skill_id, counters_db, next_counter_id>>
    ELSE IF check.err # "none" THEN
        /\ last' = Response("update_skill", HTTP_409_CONFLICT, check.err, check.at, None)
        /\ UNCHANGED <<skills_db, next_skill_id, counters_db, next_counter_id>>
    ELSE
        /\ skills_db' = Put(skills_db, skill_id, updated_skill)
        /\ last' = Response("update_skill", HTTP_200_OK, "", skill_id, None)
        /\ UNCHANGED <<next_skill_id, counters_db, next_counter_id>>

\* delete_skill that removes the skill alone and leaves its descendants
delete_skill_no_cascade(skill_id) ==
    IF skill_id \notin DOMAIN skills_db THEN
        /\ last' = Response("delete_skill", HTTP_404_NOT_FOUND, "skill_not_found", None, None)
        /\ UNCHANGED <<skills_db, next_skill_id, counters_db, next_counter_id>>
    ELSE
        /\ skills_db' = Without(skills_db, {skill_id})
        /\ last' = Response("delete_skill", HTTP_204_NO_CONTENT, "", skill_id, None)
        /\ UNCHANGED <<next_skill_id, counters_db, next_counter_id>>

\* delete_skill that sets the allocator back to the largest id left + 1
delete_skill_recomputes_allocator(skill_id) ==
    IF skill_id \notin DOMAIN skills_db THEN
        /\ last' = Response("delete_skill", HTTP_404_NOT_FOUND, "skill_not_found", None, None)
        /\ UNCHANGED <<skills_db, next_skill_id, counters_db, next_counter_id>>
    ELSE
    LET skill_parent_map == ParentMap(skills_db)
        descendants == get_descendants(skill_id, skill_parent_map)
        skills_to_delete == {skill_id} \cup descendants
    IN
        /\ skills_db' = Without(skills_db, skills_to_delete)
        /\ next_skill_id' = get_next_skill_id(skills_db')
        /\ last' = Response("delete_skill", HTTP_204_NO_CONTENT, "", skill_id, None)
        /\ UNCHANGED <<counters_db, next_counter_id>>

delete_skill(skill_id) ==
    IF skill_id \notin DOMAIN skills_db THEN
        /\ last' = Response("delete_skill", HTTP_404_NOT_FOUND, "skill_not_found", None, None)
        /\ UNCHANGED <<skills_db, next_skill_id, counters_db, next_counter_id>>
    ELSE
    LET skill_parent_map == ParentMap(skills_db)
        descendants == get_descendants(skill_id, skill_parent_map)
        skills_to_delete == {skill_id} \cup descendants
    IN
        /\ skills_db' = Without(skills_db, skills_to_delete)
        /\ last' = Response("delete_skill", HTTP_204_NO_CONTENT, "", skill_id, None)
        /\ UNCHANGED <<next_skill_id, counters_db, next_counter_id>>

\* ---------------------------------------------------------------------
\* import documents (SkillImportNode: name, counters, children)
\* ---------------------------------------------------------------------
CounterData(n, u, v, t) == [name |-> n, unit |-> u, value |-> v, target |-> t]

ImportNode(n, cs, ch) == [name |-> n, children |-> ch, counters |-> cs]

Counter(i, s, n, u, v, t) ==
    [id |-> i, name |-> n, skill_id |-> s, unit |-> u, value |-> v, target |-> t]

\* float(x) of a number that is already a number
to_float(x) == x

StoreState(sdb, nsid, cdb, ncid, err) ==
    [skills_db |-> sdb, next_skill_id |-> nsid, counters_db |-> cdb,
     next_counter_id |-> ncid, err |-> err]

\* the loop over node.counters of _import_tree_node
RECURSIVE import_counters(_, _, _)
import_counters(counter_list, skill_id, st) ==
    IF counter_list = <<>> THEN st
    ELSE LET counter_data == Head(counter_list)
             counter == Counter(st.next_counter_id, skill_id,
                                counter_data.name, counter_data.unit,
                                to_float(counter_data.value),
                                IF counter_data.target # None
                                THEN to_float(counter_data.target) ELSE None)
         IN import_counters(Tail(counter_list), skill_id,
                [st EXCEPT !.counters_db = Put(@, counter.id, counter),
                           !.next_counter_id = @ + 1])

\* _import_tree_node and the loops that call it; st.err is set when
\* _validate_unique_root_name raises, which ends the whole request and
\* leaves what was already written
RECURSIVE import_tree_node(_, _, _)
RECURSIVE import_nodes(_, _, _)
\* an import that checks the name of every node, nested ones too
import_tree_node_all_names(node, parent_id, st) ==
    IF st.err THEN st
    ELSE IF root_name_taken(st.skills_db, node.name)
    THEN [st EXCEPT !.err = TRUE]
    ELSE LET skill_id == st.next_skill_id
             st1 == [st EXCEPT !.skills_db = Put(@, skill_id, Skill(skill_id, node.name, parent_id)),
                               !.next_skill_id = @ + 1]
             st2 == import_counters(node.counters, skill_id, st1)
         IN import_nodes(node.children, skill_id, st2)

\* an import that creates a node's counters after the node's children
import_tree_node_counters_last(node, parent_id, st) ==
    IF st.err THEN st
    ELSE IF parent_id = None /\ root_name_taken(st.skills_db, node.name)
    THEN [st EXCEPT !.err = TRUE]
    ELSE LET skill_id == st.next_skill_id
             st1 == [st EXCEPT !.skills_db = Put(@, skill_id, Skill(skill_id, node.name, parent_id)),
                               !.next_skill_id = @ + 1]
             st2 == import_nodes(node.children, skill_id, st1)
         IN IF st2.err THEN st2 ELSE import_counters(node.counters, skill_id, st2)

import_tree_node(node, parent_id, st) ==
    IF st.err THEN st
    ELSE IF parent_id = None /\ root_name_taken(st.skills_db, node.name)
    THEN [st EXCEPT !.err = TRUE]
    ELSE LET skill_id == st.next_skill_id
             st1 == [st EXCEPT !.skills_db = Put(@, skill_id, Skill(skill_id, node.name, parent_id)),
                               !.next_skill_id = @ + 1]
             st2 == import_counters(node.counters, skill_id, st1)
         IN import_nodes(node.children, skill_id, st2)

import_nodes(nodes, parent_id, st) ==
    IF nodes = <<>> THEN st
    ELSE import_nodes(Tail(nodes), parent_id, import_tree_node(Head(nodes), parent_id, st))

\* an import that puts the store back when it fails
import_commit_rollback(op, st, first_id) ==
    /\ st.next_skill_id <= MaxSkillId + 1
    /\ st.next_counter_id <= MaxCounterId + 1
    /\ IF st.err
       THEN /\ UNCHANGED <<skills_db, next_skill_id, counters_db, next_counter_id>>
            /\ last' = Response(op, HTTP_409_CONFLICT, "root_name_exists", first_id, None)
       ELSE /\ skills_db' = st.skills_db
            /\ next_skill_id' = st.next_skill_id
            /\ counters_db' = st.counters_db
            /\ next_counter_id' = st.next_counter_id
            /\ last' = Response(op, IF op = "import_skill_tree" THEN HTTP_201_CREATED
                                                               ELSE HTTP_200_OK,
                                "", first_id, None)

\* commit of an import: the in-memory store after the request
import_commit(op, st, first_id) ==
    /\ st.next_skill_id <= MaxSkillId + 1
    /\ st.next_counter_id <= MaxCounterId + 1
    /\ skills_db' = st.skills_db
    /\ next_skill_id' = st.next_skill_id
    /\ counters_db' = st.counters_db
    /\ next_counter_id' = st.next_counter_id
    /\ last' = IF st.err
               THEN Response(op, HTTP_409_CONFLICT, "root_name_exists", first_id, None)
               ELSE Response(op, IF op = "import_skill_tree" THEN HTTP_201_CREATED ELSE HTTP_200_OK,
                             "", first_id, None)

\* an additive import that keeps none of its trees when one is refused
import_skill_tree_all_or_nothing(trees) ==
    import_commit_rollback("import_skill_tree",
                  import_nodes(trees, None,
                      StoreState(skills_db, next_skill_id, counters_db, next_counter_id, FALSE)),
                  next_skill_id)

import_skill_tree(trees) ==
    import_commit("import_skill_tree",
                  import_nodes(trees, None,
                      StoreState(skills_db, next_skill_id, counters_db, next_counter_id, FALSE)),
                  next_skill_id)

\* a replace-all import that forgets to clear
update_skill_tree_no_clear(trees) ==
    import_commit("update_skill_tree",
                  import_nodes(trees, None,
                      StoreState(skills_db, next_skill_id, counters_db, next_counter_id, FALSE)),
                  next_skill_id)

update_skill_tree(trees) ==
    import_commit("update_skill_tree",
                  import_nodes(trees, None, StoreState(EmptyDict, 1, EmptyDict, 1, FALSE)),
                  1)

\* ---------------------------------------------------------------------
\* export_skill_tree (app/routers/skills.py)
\* ---------------------------------------------------------------------
\* a list of counters that forgets to look at skill_id
export_counters_all(skill_id, cdb) ==
    LET ids == SortedSeq(DOMAIN cdb)
    IN [i \in 1..Len(ids) |->
            CounterData(cdb[ids[i]].name, cdb[ids[i]].unit,
                        cdb[ids[i]].value, cdb[ids[i]].target)]

\* skill_counters of export_node: the counters of the skill, in dict order
export_counters(skill_id, cdb) ==
    LET ids == SortedSeq({c \in DOMAIN cdb : cdb[c].skill_id = skill_id})
    IN [i \in 1..Len(ids) |->
            CounterData(cdb[ids[i]].name, cdb[ids[i]].unit,
                        cdb[ids[i]].value, cdb[ids[i]].target)]

RECURSIVE export_node(_, _, _)
export_node(skill_id, sdb, cdb) ==
    LET skill == sdb[skill_id]
        child_ids == SortedSeq({k \in DOMAIN sdb : sdb[k].parent_id = skill_id})
    IN [id |-> skill.id,
        name |-> skill.name,
        children |-> [i \in 1..Len(child_ids) |-> export_node(child_ids[i], sdb, cdb)],
        counters |-> export_counters(skill_id, cdb)]

\* the list export_skill_tree returns for a store
export_skill_tree(sdb, cdb) ==
    LET root_ids == SortedSeq({k \in DOMAIN sdb : sdb[k].parent_id = None})
    IN [i \in 1..Len(root_ids) |-> export_node(root_ids[i], sdb, cdb)]

\* GET /skills/export
export_request ==
    /\ last' = Response("export_skill_tree", HTTP_200_OK, "", None,
                        export_skill_tree(skills_db, counters_db))
    /\ UNCHANGED <<skills_db, next_skill_id, counters_db, next_counter_id>>

\* ---------------------------------------------------------------------
\* get_skill_summary (app/routers/skills.py)
\* ---------------------------------------------------------------------
RECURSIVE SumOver(_, _, _)
\* sum of f[c] over the counters c of the set S
SumOver(S, cdb, field) ==
    IF S = {} THEN 0
    ELSE LET c == Min(S)
         IN (IF field = "value" THEN cdb[c].value
             ELSE IF cdb[c].target # None THEN cdb[c].target ELSE 0)
            + SumOver(S \ {c}, cdb, field)

\* every skill below skill_id taken for a child
direct_children_all_below(skill_id, sdb) ==
    SortedSeq(get_descendants(skill_id, ParentMap(sdb)))

\* direct_children, in dict order
direct_children(skill_id, sdb) ==
    SortedSeq({k \in DOMAIN sdb : sdb[k].parent_id = skill_id})

\* the skill alone, without its descendants
skill_ids_to_aggregate_self_only(skill_id, sdb) == {skill_id}

skill_ids_to_aggregate(skill_id, sdb) ==
    {skill_id} \cup get_descendants(skill_id, ParentMap(sdb))

\* key = (counter.name, counter.unit or "")
aggregation_key(counter) ==
    <<counter.name, IF counter.unit = NoneStr \/ counter.unit = "" THEN "" ELSE counter.unit>>

\* the dict counter_aggregation after the two loops
counter_aggregation(skill_id, sdb, cdb) ==
    LET members == {c \in DOMAIN cdb : cdb[c].skill_id \in skill_ids_to_aggregate(skill_id, sdb)}
        keys == {aggregation_key(cdb[c]) : c \in members}
        group(key) == {c \in members : aggregation_key(cdb[c]) = key}
    IN [key \in keys |->
            [target |-> SumOver(group(key), cdb, "target"),
             total |-> SumOver(group(key), cdb, "value"),
             count |-> Cardinality(group(key))]]

\* target=data["target"] if data["target"] > 0 else None
summary_target(data) == IF data.target > 0 THEN data.target ELSE None

\* the CounterSummary entries; the order of the list is the iteration
\* order of a Python set and is not modelled
counter_totals(skill_id, sdb, cdb) ==
    LET agg == counter_aggregation(skill_id, sdb, cdb)
    IN { [name |-> key[1],
          unit |-> IF key[2] # "" THEN key[2] ELSE NoneStr,
          target |-> summary_target(agg[key]),
          total |-> agg[key].total,
          count |-> agg[key].count] : key \in DOMAIN agg }

RECURSIVE skill_summary(_, _, _)
skill_summary(skill_id, sdb, cdb) ==
    LET skill == sdb[skill_id]
        descendants == get_descendants(skill_id, ParentMap(sdb))
        children == direct_children(skill_id, sdb)
    IN [parent_id |-> skill.parent_id,
        id |-> skill.id,
        name |-> skill.name,
        children |-> [i \in 1..Len(children) |-> skill_summary(children[i], sdb, cdb)],
        counter_totals |-> counter_totals(skill_id, sdb, cdb),
        total_descendants |-> Cardinality(descendants),
        direct_children_count |-> Len(children)]

get_skill_summary(skill_id) ==
    /\ last' = IF skill_id \notin DOMAIN skills_db
               THEN Response("get_skill_summary", HTTP_404_NOT_FOUND, "skill_not_found", None, None)
               ELSE Response("get_skill_summary", HTTP_200_OK, "", skill_id,
                             skill_summary(skill_id, skills_db, counters_db))
    /\ UNCHANGED <<skills_db, next_skill_id, counters_db, next_counter_id>>

\* ---------------------------------------------------------------------
\* get_skill_tree and get_roots_summary (app/routers/skills.py)
\* ---------------------------------------------------------------------
RECURSIVE build_skill_tree(_, _)
build_skill_tree(skill_id, sdb) ==
    LET skill == sdb[skill_id]
        children_ids == SortedSeq({sid \in DOMAIN sdb : sdb[sid].parent_id = skill_id})
    IN [parent_id |-> skill.parent_id,
        id |-> skill.id,
        name |-> skill.name,
        children |-> [i \in 1..Len(children_ids) |-> build_skill_tree(children_ids[i], sdb)]]

get_skill_tree ==
    /\ LET root_ids == SortedSeq({sid \in DOMAIN skills_db : skills_db[sid].parent_id = None})
       IN last' = Response("get_skill_tree", HTTP_200_OK, "", None,
                           [i \in 1..Len(root_ids) |-> build_skill_tree(root_ids[i], skills_db)])
    /\ UNCHANGED <<skills_db, next_skill_id, counters_db, next_counter_id>>

get_roots_summary ==
    /\ LET root_skills == SortedSeq({sid \in DOMAIN skills_db : skills_db[sid].parent_id = None})
       IN last' = Response("get_roots_summary", HTTP_200_OK, "", None,
                           [i \in 1..Len(root_skills) |->
                               skill_summary(root_skills[i], skills_db, counters_db)])
    /\ UNCHANGED <<skills_db, next_skill_id, counters_db, next_counter_id>>

\* ---------------------------------------------------------------------
\* app/routers/counters.py
\* ---------------------------------------------------------------------
\* create_counter that leaves the allocator where it was
create_counter_no_increment(skill_id, counter_data) ==
    IF skill_id \notin DOMAIN skills_db THEN
        /\ last' = Response("create_counter", HTTP_404_NOT_FOUND, "skill_not_found", None, None)
        /\ UNCHANGED <<skills_db, next_skill_id, counters_db, next_counter_id>>
    ELSE
        /\ next_counter_id <= MaxCounterId
        /\ counters_db' = Put(counters_db, next_counter_id,
                              Counter(next_counter_id, skill_id, counter_data.name,
                                      counter_data.unit, counter_data.value, counter_data.target))
        /\ last' = Response("create_counter", HTTP_201_CREATED, "", next_counter_id, None)
        /\ UNCHANGED <<skills_db, next_skill_id, next_counter_id>>

create_counter(skill_id, counter_data) ==
    IF skill_id \notin DOMAIN skills_db THEN
        /\ last' = Response("create_counter", HTTP_404_NOT_FOUND, "skill_not_found", None, None)
        /\ UNCHANGED <<skills_db, next_skill_id, counters_db, next_counter_id>>
    ELSE
        /\ next_counter_id <= MaxCounterId
        /\ counters_db' = Put(counters_db, next_counter_id,
                              Counter(next_counter_id, skill_id, counter_data.name,
                                      counter_data.unit, counter_data.value, counter_data.target))
        /\ next_counter_id' = next_counter_id + 1
        /\ last' = Response("create_counter", HTTP_201_CREATED, "", next_counter_id, None)
        /\ UNCHANGED <<skills_db, next_skill_id>>

delete_counter(counter_id) ==
    IF counter_id \notin DOMAIN counters_db THEN
        /\ last' = Response("delete_counter", HTTP_404_NOT_FOUND, "counter_not_found", None, None)
        /\ UNCHANGED <<skills_db, next_skill_id, counters_db, next_counter_id>>
    ELSE
        /\ counters_db' = Without(counters_db, {counter_id})
        /\ last' = Response("delete_counter", HTTP_204_NO_CONTENT, "", counter_id, None)
        /\ UNCHANGED <<skills_db, next_skill_id, next_counter_id>>

\* the largest counter value the model lets a request reach
MaxValue == 3

\* update_data.get(key, default)
dict_get(update_data, key, default) ==
    IF key \in DOMAIN update_data THEN update_data[key] ELSE default

\* update_counter: update_data is model_dump(exclude_unset=True), a dict
\* of the fields the request sent; Counter(...) validates the record it
\* builds, and a null name or value (which CounterUpdate lets through)
\* makes it raise a ValidationError that no handler catches
update_counter(counter_id, update_data) ==
    IF counter_id \notin DOMAIN counters_db THEN
        /\ last' = Response("update_counter", HTTP_404_NOT_FOUND, "counter_not_found", None, None)
        /\ UNCHANGED <<skills_db, next_skill_id, counters_db, next_counter_id>>
    ELSE
    LET existing_counter == counters_db[counter_id]
        name == dict_get(update_data, "name", existing_counter.name)
        unit == dict_get(update_data, "unit", existing_counter.unit)
        value == dict_get(update_data, "value", existing_counter.value)
        target == dict_get(update_data, "target", existing_counter.target)
        updated_counter == Counter(existing_counter.id, existing_counter.skill_id,
                                   name, unit, value, target)
    IN
    IF name = NoneStr \/ value = None THEN
        /\ last' = Response("update_counter", None, "ValidationError", counter_id, None)
        /\ UNCHANGED <<skills_db, next_skill_id, counters_db, next_counter_id>>
    ELSE
        /\ counters_db' = Put(counters_db, counter_id, updated_counter)
        /\ last' = Response("update_counter", HTTP_200_OK, "", counter_id, None)
        /\ UNCHANGED <<skills_db, next_skill_id, next_counter_id>>

\* increment_counter without the test of the new value
increment_counter_no_check(counter_id, amount) ==
    IF counter_id \notin DOMAIN counters_db THEN
        /\ last' = Response("increment_counter", HTTP_404_NOT_FOUND, "counter_not_found", None, None)
        /\ UNCHANGED <<skills_db, next_skill_id, counters_db, next_counter_id>>
    ELSE
    LET existing_counter == counters_db[counter_id]
        new_value == existing_counter.value + amount
        updated_counter == Counter(existing_counter.id, existing_counter.skill_id,
                                   existing_counter.name, existing_counter.unit,
                                   new_value, existing_counter.target)
    IN
        /\ new_value <= MaxValue
        /\ counters_db' = Put(counters_db, counter_id, updated_counter)
        /\ last' = Response("increment_counter", HTTP_200_OK, "", counter_id, None)
        /\ UNCHANGED <<skills_db, next_skill_id, next_counter_id>>

increment_counter(counter_id, amount) ==
    IF counter_id \notin DOMAIN counters_db THEN
        /\ last' = Response("increment_counter", HTTP_404_NOT_FOUND, "counter_not_found", None, None)
        /\ UNCHANGED <<skills_db, next_skill_id, counters_db, next_counter_id>>
    ELSE
    LET existing_counter == counters_db[counter_id]
        new_value == existing_counter.value + amount
        updated_counter == Counter(existing_counter.id, existing_counter.skill_id,
                                   existing_counter.name, existing_counter.unit,
                                   new_value, existing_counter.target)
    IN
    IF new_value < 0 THEN
        /\ last' = Response("increment_counter", HTTP_400_BAD_REQUEST, "would_be_negative", counter_id, None)
        /\ UNCHANGED <<skills_db, next_skill_id, counters_db, next_counter_id>>
    ELSE
        /\ new_value <= MaxValue
        /\ counters_db' = Put(counters_db, counter_id, updated_counter)
        /\ last' = Response("increment_counter", HTTP_200_OK, "", counter_id, None)
        /\ UNCHANGED <<skills_db, next_skill_id, next_counter_id>>

\* ---------------------------------------------------------------------
\* app/main.py
\* ---------------------------------------------------------------------
\* a clear that empties the maps and leaves the allocators
clear_all_app_data_keep_ids ==
    /\ skills_db' = EmptyDict
    /\ counters_db' = EmptyDict
    /\ last' = Response("clear_all_app_data", HTTP_204_NO_CONTENT, "", None, None)
    /\ UNCHANGED <<next_skill_id, next_counter_id>>

clear_all_app_data ==
    /\ skills_db' = EmptyDict
    /\ counters_db' = EmptyDict
    /\ next_skill_id' = 1
    /\ next_counter_id' = 1
    /\ last' = Response("clear_all_app_data", HTTP_204_NO_CONTENT, "", None, None)

\* ---------------------------------------------------------------------
\* The hierarchy specification: every request that touches the skill map,
\* with the three names "A", "a" (equal ignoring case) and "B".  Counter
\* requests never read or write skills_db or next_skill_id and the
\* counters of an import document do not influence the skills it creates,
\* so they are left to the store specification below.
\* ---------------------------------------------------------------------
ImportTrees ==
    { ImportNode("A", <<>>, <<>>),
      ImportNode("a", <<>>, <<>>),
      ImportNode("B", <<>>, <<ImportNode("A", <<>>, <<>>)>>) }

ImportDocs ==
    {<<>>} \cup {<<t>> : t \in ImportTrees}
           \cup {<<ImportNode("A", <<>>, <<>>), t>> : t \in ImportTrees}

Init ==
    /\ skills_db = EmptyDict
    /\ next_skill_id = get_next_skill_id(EmptyDict)
    /\ counters_db = EmptyDict
    /\ next_counter_id = 1
    /\ last = Response("init", HTTP_200_OK, "", None, None)

Next ==
    \/ \E d \in SkillCreateInputs : create_root_skill(d)
    \/ \E p \in SkillIds, d \in SkillCreateInputs : create_subskill(p, d)
    \/ \E s \in SkillIds, d \in SkillUpdateInputs : update_skill(s, d)
    \/ \E s \in SkillIds : delete_skill(s)
    \/ clear_all_app_data
    \/ \E t \in ImportDocs : import_skill_tree(t)
    \/ \E t \in ImportDocs : update_skill_tree(t)

Spec == Init /\ [][Next]_vars

\* the hierarchy specification with the reads of the whole forest
NextReads ==
    \/ Next
    \/ get_skill_tree
    \/ export_request
    \/ get_roots_summary

SpecReads == Init /\ [][NextReads]_vars

\* ---------------------------------------------------------------------
\* The store specification: skills and counters together.  Skill names
\* are "A" and "B" only; every operation on skills and the creation and
\* deletion of counters are present.
\* ---------------------------------------------------------------------
Hours1 == CounterData("Hours", "h", 1, None)

StoreCounterInputs == {Hours1}

StoreCreateInputs == [parent_id : {None}, name : {"A", "B"}]

StoreUpdateInputs ==
    [parent_id : {PROMOTE_TO_ROOT} \cup SkillIds, name : {NoneStr}, parent_id_set : {TRUE}]

StoreImportDocs ==
    { <<>>,
      <<ImportNode("A", <<Hours1>>, <<>>)>>,
      <<ImportNode("B", <<>>, <<ImportNode("A", <<Hours1>>, <<>>)>>)>>,
      <<ImportNode("A", <<Hours1>>, <<>>), ImportNode("A", <<>>, <<>>)>> }

NextStore ==
    \/ \E d \in StoreCreateInputs : create_root_skill(d)
    \/ \E p \in SkillIds, d \in StoreCreateInputs : create_subskill(p, d)
    \/ \E s \in SkillIds, d \in StoreUpdateInputs : update_skill(s, d)
    \/ \E s \in SkillIds : delete_skill(s)
    \/ clear_all_app_data
    \/ \E t \in StoreImportDocs : import_skill_tree(t)
    \/ \E t \in StoreImportDocs : update_skill_tree(t)
    \/ \E s \in SkillIds, c \in StoreCounterInputs : create_counter(s, c)
    \/ \E c \in CounterIds : delete_counter(c)

SpecStore == Init /\ [][NextStore]_vars

\* ---------------------------------------------------------------------
\* The aggregation specification: trees built by create and delete (every
\* shape of forest on the ids of the model, counters of deleted skills
\* included), counters of several names, units and targets, and the
\* summary read.
\* ---------------------------------------------------------------------
AggCounterInputs ==
    { CounterData("Hours", NoneStr, 1, None),
      CounterData("Hours", "", 2, 0),
      CounterData("Hours", "h", 2, 3),
      CounterData("Hours", "h", 1, None),
      CounterData("Pages", "h", 1, 3) }

AggRootInputs == [parent_id : {None}, name : {"A", "B"}]

AggChildInputs == [parent_id : {None}, name : {"B"}]

NextAgg ==
    \/ \E d \in AggRootInputs : create_root_skill(d)
    \/ \E p \in SkillIds, d \in AggChildInputs : create_subskill(p, d)
    \/ \E s \in SkillIds : delete_skill(s)
    \/ \E s \in SkillIds, c \in AggCounterInputs : create_counter(s, c)
    \/ \E s \in SkillIds : get_skill_summary(s)

SpecAgg == Init /\ [][NextAgg]_vars

\* ---------------------------------------------------------------------
\* The import specification: additive and replace-all imports of
\* documents with nested nodes and counters, documents that fail at their
\* second or third tree, deletions, and the export.
\* ---------------------------------------------------------------------
Pages2 == CounterData("Pages", NoneStr, 2, 3)

ImportSpecDocs ==
    { <<>>,
      <<ImportNode("B", <<>>, <<>>)>>,
      <<ImportNode("A", <<Hours1, Pages2>>, <<>>)>>,
      <<ImportNode("A", <<Hours1>>, <<ImportNode("B", <<Pages2>>, <<>>)>>),
        ImportNode("B", <<>>, <<>>)>>,
      <<ImportNode("A", <<Pages2>>, <<ImportNode("B", <<>>, <<>>),
                                      ImportNode("A", <<Hours1>>, <<>>)>>)>>,
      <<ImportNode("B", <<>>, <<ImportNode("A", <<Hours1>>,
                                          <<ImportNode("A", <<>>, <<>>)>>)>>)>>,
      <<ImportNode("A", <<Hours1>>, <<>>), ImportNode("a", <<Pages2>>, <<>>)>>,
      <<ImportNode("B", <<>>, <<>>), ImportNode("A", <<>>, <<>>),
        ImportNode("B", <<>>, <<>>)>> }

NextImport ==
    \/ \E t \in ImportSpecDocs : import_skill_tree(t)
    \/ \E t \in ImportSpecDocs : update_skill_tree(t)
    \/ \E s \in SkillIds : delete_skill(s)
    \/ export_request

SpecImport == Init /\ [][NextImport]_vars

\* ---------------------------------------------------------------------
\* The counter specification: one or two skills, and every request that
\* writes a counter: creation (directly and by an import), update of the
\* fields sent, increment by a positive, zero or negative amount, and
\* deletion.  Bodies are the ones the request models accept (value >= 0,
\* target >= 0 or null); the amount of an increment is unconstrained.
\* ---------------------------------------------------------------------
CounterSpecCreates ==
    { CounterData("Hours", "h", 0, None), CounterData("Hours", "h", 1, 2) }

CounterSpecUpdates ==
    { EmptyDict, ("value" :> 0), ("value" :> 2), ("value" :> None),
      ("name" :> "Pages"), ("target" :> None) }

IncrementAmounts == {0 - 2, 0 - 1, 0, 1}

CounterSpecDocs == { <<ImportNode("B", <<Pages2>>, <<>>)>> }

NextCounters ==
    \/ \E d \in AggChildInputs : create_root_skill(d)
    \/ \E s \in SkillIds : delete_skill(s)
    \/ \E t \in CounterSpecDocs : update_skill_tree(t)
    \/ \E s \in SkillIds, c \in CounterSpecCreates : create_counter(s, c)
    \/ \E c \in CounterIds, d \in CounterSpecUpdates : update_counter(c, d)
    \/ \E c \in CounterIds, a \in IncrementAmounts : increment_counter(c, a)
    \/ \E c \in CounterIds : delete_counter(c)

SpecCounters == Init /\ [][NextCounters]_vars

\* ---------------------------------------------------------------------
\* The validation specification: the functions of app/utils/validation.py
\* applied to every forest over the ids of the model.  The store is one
\* that was loaded at start-up (the allocator is then the largest id
\* plus one); each skill has a name of its own.
\* ---------------------------------------------------------------------
NameOf(k) == <<"A", "B", "C", "D", "E">>[k]

\* following parent pointers from cur ends at None, inside the map,
\* without visiting a skill twice
RECURSIVE ReachesNull(_, _, _)
ReachesNull(map, cur, seen) ==
    IF cur = None THEN TRUE
    ELSE IF cur \in seen \/ cur \notin DOMAIN map THEN FALSE
    ELSE ReachesNull(map, map[cur], seen \cup {cur})

\* every acyclic parent map over a set of ids of the model
ForestMaps ==
    UNION { {pm \in [S -> S \cup {None}] : \A k \in S : ReachesNull(pm, k, {})} :
            S \in SUBSET SkillIds }

\* validate_no_cycle one loop iteration at a time.  The call in progress
\* is kept in last: detail is "running" while the loop runs, "returned"
\* or "raised" when the call is over; body holds the locals current and
\* visited, the nodes in the order in which they were added to visited,
\* the number of iterations begun, and the outcome.
WalkState(skill_id, new_parent_id, pc, current, visited, processed, iterations, result) ==
    Response("validate_no_cycle_walk", HTTP_200_OK, pc, skill_id,
             [current |-> current, visited |-> visited,
              new_parent_id |-> new_parent_id, result |-> result,
              processed |-> processed, iterations |-> iterations])

Running == last.op = "validate_no_cycle_walk" /\ last.detail = "running"

\* the call up to the first test of the loop condition
validate_no_cycle_begin(skill_id, new_parent_id) ==
    /\ ~ Running
    /\ last' = IF new_parent_id = None
               THEN WalkState(skill_id, new_parent_id, "returned", None, {}, <<>>, 0, NoError)
               ELSE IF skill_id = new_parent_id
               THEN WalkState(skill_id, new_parent_id, "raised", None, {}, <<>>, 0,
                              [err |-> "self_parent", at |-> skill_id])
               ELSE WalkState(skill_id, new_parent_id, "running", new_parent_id, {}, <<>>, 0,
                              NoError)
    /\ UNCHANGED <<skills_db, next_skill_id, counters_db, next_counter_id>>

\* a loop that never looks at visited
validate_no_cycle_step_no_visited ==
    /\ Running
    /\ LET w == last.body
           nxt == Get(ParentMap(skills_db), w.current)
       IN last' =
            IF w.current = last.id
            THEN WalkState(last.id, w.new_parent_id, "raised", w.current, w.visited,
                           w.processed, w.iterations + 1,
                           [err |-> "cycle", at |-> w.current])
            ELSE WalkState(last.id, w.new_parent_id,
                           IF nxt = None THEN "returned" ELSE "running",
                           nxt, w.visited \cup {w.current},
                           Append(w.processed, w.current), w.iterations + 1, NoError)
    /\ UNCHANGED <<skills_db, next_skill_id, counters_db, next_counter_id>>

\* one iteration of the while loop, with the test of the loop condition
\* that follows it
validate_no_cycle_step ==
    /\ Running
    /\ LET w == last.body
           nxt == Get(ParentMap(skills_db), w.current)
       IN last' =
            IF w.current = last.id
            THEN WalkState(last.id, w.new_parent_id, "raised", w.current, w.visited,
                           w.processed, w.iterations + 1,
                           [err |-> "cycle", at |-> w.current])
            ELSE IF w.current \in w.visited
            THEN WalkState(last.id, w.new_parent_id, "raised", w.current, w.visited,
                           w.processed, w.iterations + 1,
                           [err |-> "existing_cycle", at |-> w.current])
            ELSE WalkState(last.id, w.new_parent_id,
                           IF nxt = None THEN "returned" ELSE "running",
                           nxt, w.visited \cup {w.current},
                           Append(w.processed, w.current), w.iterations + 1, NoError)
    /\ UNCHANGED <<skills_db, next_skill_id, counters_db, next_counter_id>>

check_validate_no_cycle(skill_id, new_parent_id) ==
    /\ last' = Response("validate_no_cycle", HTTP_200_OK, "", skill_id,
                   [new_parent_id |-> new_parent_id,
                    result |-> validate_no_cycle(skill_id, new_parent_id, ParentMap(skills_db)),
                    result_with_edge |->
                        validate_no_cycle(skill_id, new_parent_id,
                                          Put(ParentMap(skills_db), skill_id, new_parent_id))])
    /\ UNCHANGED <<skills_db, next_skill_id, counters_db, next_counter_id>>

check_get_descendants(skill_id) ==
    /\ last' = Response("get_descendants", HTTP_200_OK, "", skill_id,
                   get_descendants(skill_id, ParentMap(skills_db)))
    /\ UNCHANGED <<skills_db, next_skill_id, counters_db, next_counter_id>>

check_get_ancestors(skill_id) ==
    /\ last' = Response("get_ancestors", HTTP_200_OK, "", skill_id,
                   get_ancestors(skill_id, ParentMap(skills_db)))
    /\ UNCHANGED <<skills_db, next_skill_id, counters_db, next_counter_id>>

check_traverse_dfs(skill_id) ==
    /\ last' = Response("traverse_dfs", HTTP_200_OK, "", skill_id,
                   traverse_dfs(skill_id, ParentMap(skills_db)))
    /\ UNCHANGED <<skills_db, next_skill_id, counters_db, next_counter_id>>

check_traverse_bfs(skill_id) ==
    /\ last' = Response("traverse_bfs", HTTP_200_OK, "", skill_id,
                   traverse_bfs(skill_id, ParentMap(skills_db)))
    /\ UNCHANGED <<skills_db, next_skill_id, counters_db, next_counter_id>>

InitValidation ==
    /\ skills_db \in {[k \in DOMAIN pm |-> Skill(k, NameOf(k), pm[k])] : pm \in ForestMaps}
    /\ next_skill_id = get_next_skill_id(skills_db)
    /\ counters_db = EmptyDict
    /\ next_counter_id = get_next_counter_id(counters_db)
    /\ last = Response("init", HTTP_200_OK, "", None, None)

NextValidation ==
    \/ \E s \in SkillIds, p \in SkillIds \cup {None} : check_validate_no_cycle(s, p)
    \/ \E s \in SkillIds : check_get_descendants(s)
    \/ \E s \in SkillIds : check_get_ancestors(s)
    \/ \E s \in SkillIds : check_traverse_dfs(s)
    \/ \E s \in SkillIds : check_traverse_bfs(s)

SpecValidation == InitValidation /\ [][NextValidation]_vars

\* ---------------------------------------------------------------------
\* The any-map specifications: validate_no_cycle on every parent map over
\* the ids of the model, maps with cycles and maps whose parent ids are
\* no keys included (the function takes any dict).  SpecAnyMap applies
\* the whole call; SpecWalk runs the call one loop iteration at a time,
\* and a call that has begun goes on until it is over.
\* ---------------------------------------------------------------------
AnyMaps == UNION { [S -> SkillIds \cup {None}] : S \in SUBSET (1..MaxSkillId) }

InitAnyMap ==
    /\ skills_db \in {[k \in DOMAIN pm |-> Skill(k, NameOf(k), pm[k])] : pm \in AnyMaps}
    /\ next_skill_id = get_next_skill_id(skills_db)
    /\ counters_db = EmptyDict
    /\ next_counter_id = get_next_counter_id(counters_db)
    /\ last = Response("init", HTTP_200_OK, "", None, None)

NextAnyMap ==
    \E s \in SkillIds, p \in SkillIds \cup {None} : check_validate_no_cycle(s, p)

SpecAnyMap == InitAnyMap /\ [][NextAnyMap]_vars

NextWalk ==
    \/ \E s \in SkillIds, p \in SkillIds \cup {None} : validate_no_cycle_begin(s, p)
    \/ validate_no_cycle_step

SpecWalk == InitAnyMap /\ [][NextWalk]_vars /\ WF_vars(validate_no_cycle_step)

\* ---------------------------------------------------------------------
\* Requests in threads.  The handlers are plain functions (def, not
\* async def), which the framework runs in a pool of worker threads, and
\* neither the routers nor the storage module takes a lock: a request can
\* run between two statements of another.  The store at the start is any
\* forest over the ids of the model.
\*
\* delete_skill one statement at a time.  The request in progress is kept
\* in last: detail is "deleting" from the computation of skills_to_delete
\* to the end of the loop and "done" after save_skills; body holds the
\* set skills_to_delete, the members not yet deleted, and what the reads
\* of other threads returned since the request began.  The loop iterates
\* over a set, in an order the language leaves open.
\* ---------------------------------------------------------------------
DeleteState(skill_id, pc, skills_to_delete, remaining, reads) ==
    Response("delete_skill_thread", HTTP_204_NO_CONTENT, pc, skill_id,
             [skills_to_delete |-> skills_to_delete, remaining |-> remaining,
              reads |-> reads])

Deleting == last.op = "delete_skill_thread" /\ last.detail = "deleting"

delete_skill_begin(skill_id) ==
    /\ ~ Deleting
    /\ IF skill_id \notin DOMAIN skills_db THEN
           last' = Response("delete_skill", HTTP_404_NOT_FOUND, "skill_not_found", None, None)
       ELSE
           LET skill_parent_map == ParentMap(skills_db)
               descendants == get_descendants(skill_id, skill_parent_map)
               skills_to_delete == {skill_id} \cup descendants
           IN last' = DeleteState(skill_id, "deleting", skills_to_delete, skills_to_delete, {})
    /\ UNCHANGED <<skills_db, next_skill_id, counters_db, next_counter_id>>

\* one iteration of the loop: del skills_db[sid]
delete_skill_del ==
    /\ Deleting
    /\ \E sid \in last.body.remaining :
          /\ skills_db' = Without(skills_db, {sid})
          /\ last' = DeleteState(last.id, "deleting", last.body.skills_to_delete,
                                 last.body.remaining \ {sid}, last.body.reads)
    /\ UNCHANGED <<next_skill_id, counters_db, next_counter_id>>

\* the loop is over: save_skills and the 204
delete_skill_end ==
    /\ Deleting
    /\ last.body.remaining = {}
    /\ last' = DeleteState(last.id, "done", last.body.skills_to_delete, {}, last.body.reads)
    /\ UNCHANGED <<skills_db, next_skill_id, counters_db, next_counter_id>>

\* list_skills in another thread: the ids of list(skills_db.values())
list_skills ==
    /\ LET ids == DOMAIN skills_db
       IN IF Deleting
          THEN last' = DeleteState(last.id, "deleting", last.body.skills_to_delete,
                                   last.body.remaining, last.body.reads \cup {ids})
          ELSE last' = Response("list_skills", HTTP_200_OK, "", None, ids)
    /\ UNCHANGED <<skills_db, next_skill_id, counters_db, next_counter_id>>

NextDeleteThreads ==
    \/ \E s \in SkillIds : delete_skill_begin(s)
    \/ delete_skill_del
    \/ delete_skill_end
    \/ list_skills

SpecDeleteThreads == InitValidation /\ [][NextDeleteThreads]_vars

\* ---------------------------------------------------------------------
\* update_skill in two steps: everything up to the construction of
\* updated_skill (the checks read skills_db), then the assignment
\* skills_db[skill_id] = updated_skill.  The requests that have passed
\* their checks and not yet written are kept in last.body, a dict from
\* skill_id to updated_skill; detail tells how the last request to run
\* its checks fared.  At most MaxInFlight requests are between their two
\* steps, one per skill.
\* ---------------------------------------------------------------------
MaxInFlight == 2

InFlight == IF last.op = "update_skill_thread" THEN last.body ELSE EmptyDict

UpdateState(pc, skill_id, in_flight) ==
    Response("update_skill_thread", HTTP_200_OK, pc, skill_id, in_flight)

update_skill_validate(skill_id, skill_data) ==
    /\ skill_id \notin DOMAIN InFlight
    /\ Cardinality(DOMAIN InFlight) < MaxInFlight
    /\ IF skill_id \notin DOMAIN skills_db THEN
           last' = UpdateState("skill_not_found", skill_id, InFlight)
       ELSE
       LET existing_skill == skills_db[skill_id]
           new_parent_id == update_new_parent_id(existing_skill, skill_data)
           temp_skill_parent_map == Put(ParentMap(skills_db), skill_id, new_parent_id)
           check == IF new_parent_id # existing_skill.parent_id
                    THEN validate_no_cycle(skill_id, new_parent_id, temp_skill_parent_map)
                    ELSE NoError
           updated_skill == Skill(existing_skill.id,
                                  IF skill_data.name # NoneStr THEN skill_data.name
                                                               ELSE existing_skill.name,
                                  new_parent_id)
       IN
       IF new_parent_id # None /\ new_parent_id \notin DOMAIN skills_db THEN
           last' = UpdateState("parent_not_found", skill_id, InFlight)
       ELSE IF check.err # "none" THEN
           last' = UpdateState(check.err, skill_id, InFlight)
       ELSE
           last' = UpdateState("checked", skill_id, Put(InFlight, skill_id, updated_skill))
    /\ UNCHANGED <<skills_db, next_skill_id, counters_db, next_counter_id>>

\* skills_db[skill_id] = updated_skill; save_skills; return
update_skill_commit(skill_id) ==
    /\ skill_id \in DOMAIN InFlight
    /\ skills_db' = Put(skills_db, skill_id, InFlight[skill_id])
    /\ last' = UpdateState("written", skill_id, Without(InFlight, {skill_id}))
    /\ UNCHANGED <<next_skill_id, counters_db, next_counter_id>>

NextUpdateThreads ==
    \/ \E s \in SkillIds, d \in StoreUpdateInputs : update_skill_validate(s, d)
    \/ \E s \in SkillIds : update_skill_commit(s)

SpecUpdateThreads == InitValidation /\ [][NextUpdateThreads]_vars

\* =====================================================================
\* Properties
\* =====================================================================
store == <<skills_db, next_skill_id, counters_db, next_counter_id>>

Parent(k) == skills_db[k].parent_id

\* the skills below x, by the definition "x is an ancestor of y"
Subtree(db, x) == {x} \cup {y \in DOMAIN db : x \in get_ancestors(y, ParentMap(db))}

\* C1: in every reachable state the parent-pointer graph over the skill
\* map is a forest: no skill is its own parent, and the parent chain of
\* every skill reaches null without visiting a skill twice.
C1_Forest ==
    \A k \in DOMAIN skills_db :
        /\ Parent(k) # k
        /\ ReachesNull(ParentMap(skills_db), k, {})

\* a subtree has just been moved under another skill by an update
C1_Witness ==
    /\ last.op = "update_skill" /\ last.status = HTTP_200_OK
    /\ Parent(last.id) # None
    /\ \E c \in DOMAIN skills_db : Parent(c) = last.id

\* C2: an update whose requested parent is the skill itself or one of its
\* descendants is rejected with 409 and leaves the whole store as it was,
\* whatever name the request carries.
C2_CycleUpdateRejected ==
    [][ last'.op = "update_skill" =>
        \/ /\ last'.status = HTTP_409_CONFLICT
           /\ last'.detail \in {"self_parent", "cycle"}
           /\ UNCHANGED store
        \/ \A d \in {x \in SkillUpdateInputs : x.parent_id \in DOMAIN skills_db} :
           \A s \in DOMAIN skills_db :
              ~ ( /\ update_skill(s, d)
                  /\ d.parent_id \in Subtree(skills_db, s) ) ]_vars

\* the root of a chain of three has just been refused a move below itself
C2_Witness ==
    /\ last.op = "update_skill" /\ last.status = HTTP_409_CONFLICT
    /\ last.detail = "cycle"
    /\ last.id \in DOMAIN skills_db
    /\ Parent(last.id) = None
    /\ \E b, c \in DOMAIN skills_db : Parent(b) = last.id /\ Parent(c) = b

\* C3: delete_skill(X) on an existing X removes exactly X and its
\* descendants and leaves every other skill with the same id, name and
\* parent; on an unknown id it fails with 404 and changes nothing.
C3_DeleteExactlySubtree ==
    [][ last'.op = "delete_skill" =>
        \A s \in SkillIds :
          delete_skill(s) =>
            IF s \in DOMAIN skills_db
            THEN /\ last'.status = HTTP_204_NO_CONTENT
                 /\ DOMAIN skills_db' = (DOMAIN skills_db) \ Subtree(skills_db, s)
                 /\ \A k \in DOMAIN skills_db' : skills_db'[k] = skills_db[k]
            ELSE /\ last'.status = HTTP_404_NOT_FOUND
                 /\ UNCHANGED store ]_vars

\* skill 2 has just been deleted, its parent 1 is still there and its
\* child 3 is gone
C3_Witness ==
    /\ last.op = "delete_skill" /\ last.status = HTTP_204_NO_CONTENT
    /\ last.id = 2
    /\ DOMAIN skills_db = {1}
    /\ next_skill_id = 4

\* C4: no two root skills have names that are equal ignoring case.
C4_UniqueRootNames ==
    \A j, k \in DOMAIN skills_db :
        (j # k /\ Parent(j) = None /\ Parent(k) = None)
            => lower(skills_db[j].name) # lower(skills_db[k].name)

\* C5: every counter's skill_id refers to a skill that exists.
C5_CounterSkillExists ==
    \A c \in DOMAIN counters_db : counters_db[c].skill_id \in DOMAIN skills_db

CreatedSkill == last'.op \in {"create_root_skill", "create_subskill"} /\ last'.status = HTTP_201_CREATED
CreatedCounter == last'.op = "create_counter" /\ last'.status = HTTP_201_CREATED

\* C6 as stated: a new skill gets (largest id present) + 1, or 1 for an
\* empty map, also right after the skill with the largest id was
\* deleted; counters likewise.
C6_MaxPlusOne ==
    [][ /\ CreatedSkill => last'.id = get_next_skill_id(skills_db)
        /\ CreatedCounter => last'.id = get_next_counter_id(counters_db) ]_vars

\* C6 amended: a new skill gets the value of the allocator
\* next_skill_id, which is never below (largest id present) + 1 and is
\* equal to it (1 for a store that is empty from the start or since a
\* clear) as long as the id allocated last is still present; an import
\* numbers its skills consecutively from the allocator (from 1 when it
\* replaces all).  Counters likewise.
C6_AllocatorIds ==
    [][ /\ CreatedSkill =>
              /\ last'.id = next_skill_id
              /\ last'.id >= get_next_skill_id(skills_db)
              /\ (next_skill_id = 1 \/ next_skill_id - 1 \in DOMAIN skills_db)
                    => last'.id = get_next_skill_id(skills_db)
              /\ DOMAIN skills_db' = DOMAIN skills_db \cup {last'.id}
        /\ CreatedCounter =>
              /\ last'.id = next_counter_id
              /\ last'.id >= get_next_counter_id(counters_db)
              /\ (next_counter_id = 1 \/ next_counter_id - 1 \in DOMAIN counters_db)
                    => last'.id = get_next_counter_id(counters_db)
              /\ DOMAIN counters_db' = DOMAIN counters_db \cup {last'.id}
        /\ last'.op = "import_skill_tree" =>
              /\ DOMAIN skills_db' = DOMAIN skills_db \cup (next_skill_id .. next_skill_id' - 1)
              /\ DOMAIN counters_db' = DOMAIN counters_db \cup (next_counter_id .. next_counter_id' - 1)
              /\ next_skill_id >= get_next_skill_id(skills_db)
              /\ next_counter_id >= get_next_counter_id(counters_db)
        /\ last'.op = "update_skill_tree" =>
              /\ DOMAIN skills_db' = 1 .. next_skill_id' - 1
              /\ DOMAIN counters_db' = 1 .. next_counter_id' - 1 ]_vars

\* a skill and a counter were created after the holders of the largest
\* ids had been deleted: the freed ids are not given out again
C6_Witness ==
    /\ last.op = "create_counter" /\ last.status = HTTP_201_CREATED
    /\ last.id = 2
    /\ DOMAIN counters_db = {2}
    /\ DOMAIN skills_db = {2}

\* C7: after clear-all both maps are empty and both allocators are 1, so
\* the next skill and the next counter created get id 1.
C7_ClearResets ==
    [][ /\ last'.op = "clear_all_app_data" =>
              /\ skills_db' = EmptyDict /\ counters_db' = EmptyDict
              /\ next_skill_id' = 1 /\ next_counter_id' = 1
        /\ (last.op = "clear_all_app_data" /\ CreatedSkill) => last'.id = 1
        /\ (CreatedCounter /\ next_counter_id = 1) => last'.id = 1 ]_vars

\* a clear has just emptied the store
C7_Witness ==
    /\ last.op = "clear_all_app_data"
    /\ skills_db = EmptyDict /\ counters_db = EmptyDict
    /\ next_skill_id = 1 /\ next_counter_id = 1

SummaryReturned == last.op = "get_skill_summary" /\ last.status = HTTP_200_OK

\* the counters attached to X or to a skill below X
SubtreeCounters(x) ==
    {c \in DOMAIN counters_db : counters_db[c].skill_id \in Subtree(skills_db, x)}

RECURSIVE SumValues(_)
SumValues(S) ==
    IF S = {} THEN 0
    ELSE LET c == CHOOSE c \in S : TRUE IN counters_db[c].value + SumValues(S \ {c})

RECURSIVE SumTargets(_)
SumTargets(S) ==
    IF S = {} THEN 0
    ELSE LET c == CHOOSE c \in S : TRUE IN counters_db[c].target + SumTargets(S \ {c})

\* the unit under which a counter is grouped: null and "" are one unit
GroupUnit(u) == IF u = "" THEN NoneStr ELSE u

\* the entries of a summary agree with the groups of the subtree's
\* counters, where unitOf says which units count as the same; an entry
\* shows the unit "" as null
TotalsMatch(totals, x, unitOf(_)) ==
    LET cs == SubtreeCounters(x)
        pairs == {<<counters_db[c].name, unitOf(counters_db[c].unit)>> : c \in cs}
        group(p) == {c \in cs : <<counters_db[c].name, unitOf(counters_db[c].unit)>> = p}
    IN /\ Cardinality(totals) = Cardinality(pairs)
       /\ \A p \in pairs :
            \E e \in totals :
                /\ e.name = p[1] /\ e.unit = GroupUnit(p[2])
                /\ e.total = SumValues(group(p))
                /\ e.count = Cardinality(group(p))

SameUnit(u) == u

\* C8 as stated: the summary of X has exactly one entry per distinct
\* (name, unit) pair among the counters of X's subtree, with the sum of
\* their values and their number; no other counter contributes.
C8_OneEntryPerNameUnit ==
    SummaryReturned => TotalsMatch(last.body.counter_totals, last.id, SameUnit)

\* C8 amended: the same, with a null unit and the unit "" counted as one
\* unit, which the entry reports as null.
C8_OneEntryPerGroup ==
    SummaryReturned => TotalsMatch(last.body.counter_totals, last.id, GroupUnit)

\* a summary was returned that counts a counter of a descendant and
\* leaves out a counter attached elsewhere
C8_Witness ==
    /\ SummaryReturned
    /\ \E c \in SubtreeCounters(last.id) : counters_db[c].skill_id # last.id
    /\ \E c \in DOMAIN counters_db :
          /\ c \notin SubtreeCounters(last.id)
          /\ counters_db[c].skill_id \in DOMAIN skills_db
    /\ last.body.counter_totals # {}

\* C9: the target of a group is the sum of the non-null targets of its
\* counters and is null exactly when none of them has a target; targets
\* that are all 0 give 0.
C9_TargetNullIffNoTarget ==
    SummaryReturned =>
        \A e \in last.body.counter_totals :
            LET grp == {c \in SubtreeCounters(last.id) :
                          /\ counters_db[c].name = e.name
                          /\ GroupUnit(counters_db[c].unit) = e.unit}
                with == {c \in grp : counters_db[c].target # None}
            IN IF with = {} THEN e.target = None
               ELSE e.target = SumTargets(with)

\* the counts of a summary and of the summaries nested in it
RECURSIVE CountsRight(_)
CountsRight(sm) ==
    LET kids == {k \in DOMAIN skills_db : Parent(k) = sm.id}
    IN /\ sm.direct_children_count = Cardinality(kids)
       /\ sm.total_descendants = Cardinality(Subtree(skills_db, sm.id) \ {sm.id})
       /\ Len(sm.children) = Cardinality(kids)
       /\ {sm.children[i].id : i \in 1..Len(sm.children)} = kids
       /\ \A i \in 1..Len(sm.children) : CountsRight(sm.children[i])

RECURSIVE SumChildDescendants(_)
SumChildDescendants(children) ==
    IF children = <<>> THEN 0
    ELSE 1 + Head(children).total_descendants + SumChildDescendants(Tail(children))

\* C10: the summary of X reports the number of skills whose parent is X,
\* the number of descendants of X, and one recursively built summary per
\* direct child; total_descendants is the sum over the children of
\* 1 + their total_descendants.
C10_Counts ==
    SummaryReturned =>
        /\ last.body.id = last.id
        /\ CountsRight(last.body)
        /\ last.body.total_descendants = SumChildDescendants(last.body.children)

\* the summary of the root of a chain of three
C10_Witness ==
    /\ SummaryReturned
    /\ last.body.total_descendants = 2
    /\ last.body.direct_children_count = 1
    /\ Len(last.body.children) = 1
    /\ last.body.children[1].total_descendants = 1

\* ---------------------------------------------------------------------
\* import and export
\* ---------------------------------------------------------------------
\* an export with the ids taken out: the document a client sends back
RECURSIVE StripIds(_)
StripIds(nodes) ==
    [i \in 1..Len(nodes) |->
        ImportNode(nodes[i].name, nodes[i].counters, StripIds(nodes[i].children))]

\* the export of a store, without ids
Exported(sdb, cdb) == StripIds(export_skill_tree(sdb, cdb))

RECURSIVE NodeCount(_)
NodeCount(nodes) ==
    IF nodes = <<>> THEN 0
    ELSE 1 + NodeCount(Head(nodes).children) + NodeCount(Tail(nodes))

RECURSIVE CounterCount(_)
CounterCount(nodes) ==
    IF nodes = <<>> THEN 0
    ELSE Len(Head(nodes).counters) + CounterCount(Head(nodes).children)
         + CounterCount(Tail(nodes))

\* the names of the roots of a store, in lower case
RootNames(db) == {lower(db[k].name) : k \in {r \in DOMAIN db : db[r].parent_id = None}}

\* a document that passes the validation of an import into an empty
\* store: its top-level names differ ignoring case
ValidDoc(trees) ==
    \A i, j \in 1..Len(trees) : i # j => lower(trees[i].name) # lower(trees[j].name)

\* the store a replace-all import of the document leaves
Reimported(doc) == import_nodes(doc, None, StoreState(EmptyDict, 1, EmptyDict, 1, FALSE))

\* C11: in every reachable state, the export without its ids is accepted
\* by a replace-all import, and the export of the store the import leaves
\* is the same document: same roots in the same order, same names,
\* nesting and child order, same counters on each node.
C11_RoundTrip ==
    LET doc == Exported(skills_db, counters_db)
        st == Reimported(doc)
    IN /\ ~ st.err
       /\ Exported(st.skills_db, st.counters_db) = doc

\* C12: a replace-all import of a valid document leaves exactly the
\* skills and counters of the document, with ids 1..n and 1..m, and
\* nothing of what was there before; the empty list leaves an empty store.
C12_ReplaceAllExact ==
    [][ last'.op = "update_skill_tree" =>
        \A t \in StoreImportDocs :
            (ValidDoc(t) /\ update_skill_tree(t)) =>
                /\ last'.status = HTTP_200_OK
                /\ Exported(skills_db', counters_db') = t
                /\ DOMAIN skills_db' = 1..NodeCount(t)
                /\ DOMAIN counters_db' = 1..CounterCount(t)
                /\ \A c \in DOMAIN counters_db' : counters_db'[c].skill_id \in DOMAIN skills_db'
                /\ t = <<>> => (skills_db' = EmptyDict /\ counters_db' = EmptyDict) ]_vars

\* a replace-all import of a tree of two has just replaced a store that
\* had given out more ids than the document has nodes
C12_Witness ==
    /\ last.op = "update_skill_tree" /\ last.status = HTTP_200_OK
    /\ DOMAIN skills_db = {1, 2} /\ skills_db[2].parent_id = 1
    /\ DOMAIN counters_db = {1} /\ counters_db[1].skill_id = 2
    /\ next_skill_id = 3 /\ next_counter_id = 2

\* C13: an additive import fails with 409 when a top-level name of the
\* request equals, ignoring case, the name of an existing root; the names
\* of nested nodes are not checked: when the top-level names differ from
\* the existing roots' and from each other, the import succeeds and
\* creates every node of the document.
C13_ImportRootConflict ==
    [][ last'.op = "import_skill_tree" =>
        \A t \in ImportDocs :
            import_skill_tree(t) =>
                /\ (\E i \in 1..Len(t) : lower(t[i].name) \in RootNames(skills_db))
                      => last'.status = HTTP_409_CONFLICT
                /\ (/\ ValidDoc(t)
                    /\ \A i \in 1..Len(t) : lower(t[i].name) \notin RootNames(skills_db))
                      => /\ last'.status = HTTP_201_CREATED
                         /\ DOMAIN skills_db' = DOMAIN skills_db
                                \cup (next_skill_id .. next_skill_id + NodeCount(t) - 1)
                         /\ \A k \in DOMAIN skills_db : skills_db'[k] = skills_db[k] ]_vars

\* an import has just created a nested node that has the name of a root
\* that was there before
C13_Witness ==
    /\ last.op = "import_skill_tree" /\ last.status = HTTP_201_CREATED
    /\ \E r, k \in DOMAIN skills_db :
          /\ r < last.id /\ Parent(r) = None
          /\ k >= last.id /\ Parent(k) # None
          /\ lower(skills_db[k].name) = lower(skills_db[r].name)

\* ---------------------------------------------------------------------
\* create and update
\* ---------------------------------------------------------------------
\* the step adds exactly one skill, with this name and parent, and
\* changes no other skill
AddsOne(name, parent) ==
    /\ last'.status = HTTP_201_CREATED
    /\ last'.id \notin DOMAIN skills_db
    /\ DOMAIN skills_db' = DOMAIN skills_db \cup {last'.id}
    /\ skills_db'[last'.id] = Skill(last'.id, name, parent)
    /\ \A k \in DOMAIN skills_db : skills_db'[k] = skills_db[k]

Refused(status) ==
    /\ last'.status = status
    /\ UNCHANGED store

\* C14: create_root_skill answers 400 to a body with a parent_id and 409
\* to the name of an existing root (ignoring case), and then changes
\* neither the skill map nor the allocator; otherwise it adds exactly one
\* skill with the requested name and no parent and changes no other.
C14_CreateRoot ==
    [][ last'.op = "create_root_skill" =>
        \A d \in SkillCreateInputs :
            create_root_skill(d) =>
                IF d.parent_id # None THEN Refused(HTTP_400_BAD_REQUEST)
                ELSE IF lower(d.name) \in RootNames(skills_db) THEN Refused(HTTP_409_CONFLICT)
                ELSE AddsOne(d.name, None) ]_vars

\* a root has just been refused for its name while a root and a child
\* were in the store
C14_Witness ==
    /\ last.op = "create_root_skill" /\ last.status = HTTP_409_CONFLICT
    /\ \E r, c \in DOMAIN skills_db : Parent(r) = None /\ Parent(c) = r

\* C15: create_subskill(P, data) answers 404 when P does not exist, also
\* when the body's parent_id differs from P; 400 when P exists and the
\* body has a parent_id other than P; otherwise it adds exactly one skill
\* with parent P.  A failure changes neither the map nor the allocator.
C15_CreateSubskill ==
    [][ last'.op = "create_subskill" =>
        \A p \in SkillIds, d \in SkillCreateInputs :
            create_subskill(p, d) =>
                IF p \notin DOMAIN skills_db THEN Refused(HTTP_404_NOT_FOUND)
                ELSE IF d.parent_id # None /\ d.parent_id # p THEN Refused(HTTP_400_BAD_REQUEST)
                ELSE AddsOne(d.name, p) ]_vars

\* a child has just been refused because the body named another parent
\* than the path
C15_Witness ==
    /\ last.op = "create_subskill" /\ last.status = HTTP_400_BAD_REQUEST
    /\ Cardinality(DOMAIN skills_db) >= 2

\* the parent an update asks for
Requested(s, d) ==
    IF d.parent_id = PROMOTE_TO_ROOT THEN None
    ELSE IF d.parent_id_set THEN d.parent_id
    ELSE Parent(s)

\* C16: update_skill answers, in this order: 404 to an unknown skill; 400
\* to a concrete new parent that is no skill; 409 "self-parent" to a new
\* parent that is the skill itself; 409 "cycle" to a new parent that is a
\* descendant of the skill; and accepts every other request.
C16_UpdateFailureOrder ==
    [][ last'.op = "update_skill" =>
        \A s \in SkillIds, d \in SkillUpdateInputs :
            update_skill(s, d) =>
                IF s \notin DOMAIN skills_db
                THEN last'.status = HTTP_404_NOT_FOUND
                ELSE IF d.parent_id_set /\ d.parent_id \in SkillIds
                                        /\ d.parent_id \notin DOMAIN skills_db
                THEN last'.status = HTTP_400_BAD_REQUEST
                ELSE IF d.parent_id_set /\ d.parent_id = s
                THEN last'.status = HTTP_409_CONFLICT /\ last'.detail = "self_parent"
                ELSE IF d.parent_id_set /\ d.parent_id \in Subtree(skills_db, s)
                THEN last'.status = HTTP_409_CONFLICT /\ last'.detail = "cycle"
                ELSE last'.status = HTTP_200_OK ]_vars

\* an update has just been refused for a parent that does not exist
\* while the skill has a child
C16_Witness ==
    /\ last.op = "update_skill" /\ last.status = HTTP_400_BAD_REQUEST
    /\ \E r, c \in DOMAIN skills_db : Parent(c) = r

\* C17: an update without a parent_id field keeps the parent and writes
\* the name only if one is given (an empty request changes nothing); an
\* update with parent_id = -1 sets the parent to null and leaves every
\* other skill, the descendants included, as it was.
C17_UpdateParentFrame ==
    [][ last'.op = "update_skill" =>
        \A s \in DOMAIN skills_db, d \in SkillUpdateInputs :
            update_skill(s, d) =>
                /\ (~ d.parent_id_set) =>
                      /\ last'.status = HTTP_200_OK
                      /\ skills_db' = Put(skills_db, s,
                            Skill(s, IF d.name # NoneStr THEN d.name ELSE skills_db[s].name,
                                  Parent(s)))
                      /\ d.name = NoneStr => UNCHANGED store
                /\ (d.parent_id = PROMOTE_TO_ROOT) =>
                      /\ last'.status = HTTP_200_OK
                      /\ skills_db'[s].parent_id = None
                      /\ DOMAIN skills_db' = DOMAIN skills_db
                      /\ \A k \in (DOMAIN skills_db) \ {s} : skills_db'[k] = skills_db[k]
                      /\ Subtree(skills_db', s) = Subtree(skills_db, s) ]_vars

\* the middle skill of a chain of three is a root after an update and
\* the third skill is still below it
C17_Witness ==
    /\ last.op = "update_skill" /\ last.status = HTTP_200_OK /\ last.id = 2
    /\ DOMAIN skills_db = {1, 2, 3}
    /\ Parent(1) = None /\ Parent(2) = None /\ Parent(3) = 2

\* C18: an update that promotes a non-root skill to root while another
\* root has the same name ignoring case is refused with 409 and the skill
\* keeps its parent.
C18_PromoteChecksRootName ==
    [][ last'.op = "update_skill" =>
        \A s \in DOMAIN skills_db,
           d \in {x \in SkillUpdateInputs : x.parent_id = PROMOTE_TO_ROOT} :
            ( /\ update_skill(s, d)
              /\ Parent(s) # None
              /\ lower(IF d.name # NoneStr THEN d.name ELSE skills_db[s].name)
                    \in RootNames(Without(skills_db, {s})) )
            => /\ last'.status = HTTP_409_CONFLICT
               /\ skills_db'[s].parent_id = Parent(s) ]_vars

\* ---------------------------------------------------------------------
\* the functions of app/utils/validation.py on forests
\* ---------------------------------------------------------------------
\* the skills met by following the parent pointers from cur, cur included
RECURSIVE Chain(_, _)
Chain(pm, cur) ==
    IF cur = None \/ cur \notin DOMAIN pm THEN {}
    ELSE {cur} \cup Chain(pm, pm[cur])

\* s is an ancestor of p: s is on the chain that starts at p's parent
IsAncestor(pm, s, p) == p \in DOMAIN pm /\ s \in Chain(pm, pm[p])

\* C19: on an acyclic parent map validate_no_cycle(s, p, map) accepts
\* exactly when p is null, or p # s and s is no ancestor of p; it raises
\* the self-parent error exactly when p = s and the cycle error exactly
\* when p # s and s is an ancestor of p; with the edge s -> p written
\* into the map first the outcome is the same.
C19_ValidateNoCycle ==
    last.op = "validate_no_cycle" =>
        LET s == last.id
            p == last.body.new_parent_id
            expected == IF p = None THEN "none"
                        ELSE IF p = s THEN "self_parent"
                        ELSE IF IsAncestor(ParentMap(skills_db), s, p) THEN "cycle"
                        ELSE "none"
        IN /\ last.body.result.err = expected
           /\ last.body.result_with_edge.err = expected

\* the check has just refused to put the root of a chain of three below
\* the last skill of the chain
C19_Witness ==
    /\ last.op = "validate_no_cycle"
    /\ last.body.result.err = "cycle"
    /\ last.body.result_with_edge.err = "cycle"
    /\ last.id \in DOMAIN skills_db
    /\ last.body.new_parent_id \in DOMAIN skills_db
    /\ Parent(last.body.new_parent_id) \notin {None, last.id}

\* C20: on a forest get_descendants(x, map) is the set of the skills
\* y # x with x in get_ancestors(y, map); it holds neither x nor an
\* ancestor of x, and it is empty for a leaf.
C20_DescendantsAncestors ==
    last.op = "get_descendants" =>
        LET x == last.id
            pm == ParentMap(skills_db)
        IN /\ last.body = {y \in (DOMAIN pm) \ {x} : x \in get_ancestors(y, pm)}
           /\ x \notin last.body
           /\ last.body \cap get_ancestors(x, pm) = {}
           /\ (\A k \in DOMAIN pm : pm[k] # x) => last.body = {}

\* the descendants of a skill with a child and a grandchild, in a forest
\* with a skill outside its subtree
C20_Witness ==
    /\ last.op = "get_descendants"
    /\ \E y, z \in last.body : Parent(y) = last.id /\ Parent(z) = y
    /\ \E k \in DOMAIN skills_db : k # last.id /\ k \notin last.body

\* ---------------------------------------------------------------------
\* traversals and ancestors on forests
\* ---------------------------------------------------------------------
\* the ancestors of n in the store, by the chain of its parents
Anc(n) == IF n \in DOMAIN skills_db THEN Chain(ParentMap(skills_db), Parent(n)) ELSE {}

\* the skills that have x among their ancestors, and x
Below(x) == {x} \cup {y \in DOMAIN skills_db : x \in Anc(y)}

Elements(r) == {r[i] : i \in 1..Len(r)}

PosIn(r, n) == CHOOSE i \in 1..Len(r) : r[i] = n

\* two different skills of the store with the same parent
Siblings(a, b) ==
    /\ a # b /\ a \in DOMAIN skills_db /\ b \in DOMAIN skills_db
    /\ Parent(a) = Parent(b)

\* C21: traverse_dfs(x) is the pre-order sequence: x first; the subtree
\* of every node fills the places that follow the node, before anything
\* of the node's next sibling; the children of a node come in ascending
\* id order.
C21_DfsPreOrder ==
    last.op = "traverse_dfs" =>
        LET r == last.body
            x == last.id
        IN /\ Len(r) >= 1 /\ r[1] = x
           /\ Elements(r) \subseteq Below(x)
           /\ \A i \in 1..Len(r) :
                LET size == Cardinality(Below(r[i]))
                IN /\ i + size - 1 <= Len(r)
                   /\ {r[j] : j \in i..(i + size - 1)} = Below(r[i])
           /\ \A i, j \in 2..Len(r) :
                (i < j /\ Siblings(r[i], r[j])) => r[i] < r[j]

\* a depth-first traversal of a skill with two children, the first of
\* which has a child with a larger id than its uncle
C21_Witness ==
    /\ last.op = "traverse_dfs"
    /\ Len(last.body) = 4
    /\ Parent(last.body[2]) = last.id
    /\ Parent(last.body[3]) = last.body[2]
    /\ Parent(last.body[4]) = last.id
    /\ last.body[3] > last.body[4]

\* the depth of n below x
DepthBelow(x, n) == Cardinality(Anc(n)) - Cardinality(Anc(x))

C23_TraversalsVisitSubtreeOnce ==
    [][ last'.op \in {"traverse_dfs", "traverse_bfs"} =>
        LET r == last'.body
            x == last'.id
            pm == ParentMap(skills_db)
        IN /\ Elements(r) = {x} \cup get_descendants(x, pm)
           /\ Len(r) = Cardinality(Elements(r))
           /\ Elements(r) \cap Anc(x) = {}
           /\ \A n \in Elements(r) : n = x \/ x \in Anc(n)
           /\ UNCHANGED store
           /\ (last.op = last'.op /\ last.id = x) => r = last.body ]_vars

\* a traversal from a skill that has a parent, a child and a brother:
\* the result holds the skill and its child only
C23_Witness ==
    /\ last.op \in {"traverse_dfs", "traverse_bfs"}
    /\ Len(last.body) = 2
    /\ last.id \in DOMAIN skills_db
    /\ Parent(last.id) # None
    /\ \E b \in DOMAIN skills_db : Siblings(b, last.id)

\* C24: get_ancestors(x) is the set of skills met by following the
\* parent pointers from x's parent; x is never in it; it is empty for a
\* root and for an id that is no key of the map.
C24_Ancestors ==
    last.op = "get_ancestors" =>
        LET x == last.id
        IN /\ last.body = Anc(x)
           /\ x \notin last.body
           /\ (x \in DOMAIN skills_db /\ Parent(x) = None) => last.body = {}
           /\ x \notin DOMAIN skills_db => last.body = {}
           /\ \A a \in last.body :
                 a = Parent(x) \/ \E b \in last.body : a = Parent(b)

\* the ancestors of the last skill of a chain of three
C24_Witness ==
    /\ last.op = "get_ancestors"
    /\ Cardinality(last.body) = 2
    /\ \E a \in last.body : Parent(last.id) = a /\ Parent(a) \in last.body

\* ---------------------------------------------------------------------
\* validate_no_cycle on maps that are no forests
\* ---------------------------------------------------------------------
\* the n-th node of the upward walk from p (p itself for n = 0); None
\* once the walk has ended
RECURSIVE Nth(_, _, _)
Nth(pm, p, n) ==
    IF n = 0 THEN p
    ELSE LET prev == Nth(pm, p, n - 1)
         IN IF prev = None \/ prev \notin DOMAIN pm THEN None ELSE pm[prev]

\* the walk is at a node for the second time at its n-th place
Revisit(pm, p, n) ==
    /\ Nth(pm, p, n) # None
    /\ \E i \in 0..(n - 1) : Nth(pm, p, i) = Nth(pm, p, n)

WalkLength == MaxSkillId + 2

\* C25: when the upward walk from the proposed parent comes to a node
\* for the second time without having met the skill, validate_no_cycle
\* raises the "existing cycle" error that names that node, and not the
\* "would create a cycle" error; it raises that error in no other case.
C25_ExistingCycleReported ==
    last.op = "validate_no_cycle" =>
        LET s == last.id
            p == last.body.new_parent_id
            pm == ParentMap(skills_db)
            revisits == {n \in 1..WalkLength :
                            /\ Revisit(pm, p, n)
                            /\ \A i \in 0..n : Nth(pm, p, i) # s}
        IN IF p # None /\ p # s /\ revisits # {}
           THEN /\ last.body.result.err = "existing_cycle"
                /\ last.body.result.at = Nth(pm, p, Min(revisits))
           ELSE last.body.result.err # "existing_cycle"

\* the walk went over a skill that is not on the cycle before it came
\* to the same skill twice
C25_Witness ==
    /\ last.op = "validate_no_cycle"
    /\ last.body.result.err = "existing_cycle"
    /\ last.body.result.at # last.body.new_parent_id
    /\ Parent(last.body.result.at) # last.body.result.at

\* C26: validate_no_cycle terminates on every finite parent map, also on
\* maps with cycles and with parent ids that are no keys: a call that
\* runs comes to its end; no node is added to visited twice, the loop
\* begins at most one iteration more than there are nodes visited, and
\* the outcome is that of the whole call.
C26_WalkTerminates ==
    /\ [] ( last.op = "validate_no_cycle_walk" =>
              LET w == last.body
              IN /\ Len(w.processed) = Cardinality(Elements(w.processed))
                 /\ Elements(w.processed) = w.visited
                 /\ w.iterations <= Len(w.processed) + 1
                 /\ Len(w.processed) <= Cardinality(DOMAIN skills_db) + 1
                 /\ last.detail # "running" =>
                       w.result = validate_no_cycle(last.id, w.new_parent_id,
                                                    ParentMap(skills_db)) )
    /\ (Running ~> ~ Running)

\* a call has ended with the "existing cycle" error after two nodes, on
\* a map in which a parent id is no key
C26_Witness ==
    /\ last.op = "validate_no_cycle_walk" /\ last.detail = "raised"
    /\ last.body.result.err = "existing_cycle"
    /\ Len(last.body.processed) = 2
    /\ \E k \in DOMAIN skills_db : Parent(k) # None /\ Parent(k) \notin DOMAIN skills_db

\* C27: create_subskill never answers 409: in every reachable state the
\* id the next skill will get is no key of the map, and the cycle check
\* of that id under any existing parent passes.
C27_SubskillNeverConflicts ==
    /\ ~ (last.op = "create_subskill" /\ last.status = HTTP_409_CONFLICT)
    /\ next_skill_id \notin DOMAIN skills_db
    /\ \A p \in DOMAIN skills_db :
          validate_no_cycle(next_skill_id, p,
                            Put(ParentMap(skills_db), next_skill_id, p)) = NoError

\* a skill has just been created below a skill that has a parent
C27_Witness ==
    /\ last.op = "create_subskill" /\ last.status = HTTP_201_CREATED
    /\ Parent(last.id) \in DOMAIN skills_db
    /\ Parent(Parent(last.id)) # None

\* ---------------------------------------------------------------------
\* the order of an import, a failed replace-all import, the export
\* ---------------------------------------------------------------------
ImportSucceeded ==
    /\ last'.op \in {"import_skill_tree", "update_skill_tree"}
    /\ last'.status \in {HTTP_200_OK, HTTP_201_CREATED}

\* the request t is the one this import step has served
Served(t) ==
    IF last'.op = "import_skill_tree" THEN import_skill_tree(t) ELSE update_skill_tree(t)

\* C28: an import numbers the nodes of the document in depth-first
\* pre-order from the allocator's value (from 1 when it replaces all):
\* a node before its children, the whole subtree of a node before the
\* node's next sibling, the trees in list order; counter ids follow the
\* same order of nodes, the counters of a node in list order.
C28_ImportPreOrderIds ==
    [][ ImportSucceeded =>
        \A t \in ImportSpecDocs :
            Served(t) =>
                LET first == IF last'.op = "update_skill_tree" THEN 1 ELSE next_skill_id
                    firstc == IF last'.op = "update_skill_tree" THEN 1 ELSE next_counter_id
                    new == first .. (next_skill_id' - 1)
                    newc == firstc .. (next_counter_id' - 1)
                    newdb == [k \in new |-> skills_db'[k]]
                    newcdb == [c \in newc |-> counters_db'[c]]
                IN /\ new \subseteq DOMAIN skills_db' /\ newc \subseteq DOMAIN counters_db'
                   /\ Cardinality(new) = NodeCount(t)
                   /\ Cardinality(newc) = CounterCount(t)
                   /\ Exported(newdb, newcdb) = t
                   /\ t # <<>> => newdb[first].parent_id = None
                   /\ \A k \in new :
                        /\ newdb[k].parent_id # None =>
                              (newdb[k].parent_id \in new /\ newdb[k].parent_id < k)
                        /\ Subtree(newdb, k) = k .. (k + Cardinality(Subtree(newdb, k)) - 1)
                   /\ \A c, d \in newc :
                        c < d => /\ newcdb[c].skill_id \in new
                                 /\ newcdb[c].skill_id <= newcdb[d].skill_id ]_vars

\* an import has numbered a root 1, its child 2 and the next root 3, and
\* given counter 1 to the root and counter 2 to the child
C28_Witness ==
    /\ last.op \in {"import_skill_tree", "update_skill_tree"}
    /\ last.status \in {HTTP_200_OK, HTTP_201_CREATED}
    /\ DOMAIN skills_db = {1, 2, 3}
    /\ Parent(1) = None /\ Parent(2) = 1 /\ Parent(3) = None
    /\ DOMAIN counters_db = {1, 2}
    /\ counters_db[1].skill_id = 1 /\ counters_db[2].skill_id = 2

\* the place of the first top-level tree whose name an earlier tree of
\* the document has, ignoring case
FirstClash(t) ==
    Min({i \in 1..Len(t) : \E j \in 1..(i - 1) : lower(t[j].name) = lower(t[i].name)})

\* C29: a replace-all import that fails part-way has discarded the
\* skills and counters that were there and leaves exactly the trees of
\* the document that come before the failing one: not the whole document,
\* and nothing of the old store.
C29_FailedReplaceAllIsPartial ==
    [][ last'.op = "update_skill_tree" =>
        \A t \in ImportSpecDocs :
            update_skill_tree(t) =>
                IF ValidDoc(t) THEN last'.status = HTTP_200_OK
                ELSE LET done == SubSeq(t, 1, FirstClash(t) - 1)
                     IN /\ last'.status = HTTP_409_CONFLICT
                        /\ Exported(skills_db', counters_db') = done
                        /\ Exported(skills_db', counters_db') # t
                        /\ DOMAIN skills_db' = 1..NodeCount(done)
                        /\ DOMAIN counters_db' = 1..CounterCount(done)
                        /\ next_skill_id' = NodeCount(done) + 1
                        /\ next_counter_id' = CounterCount(done) + 1 ]_vars

\* a replace-all import has failed at its third tree and left the first
\* two
C29_Witness ==
    /\ last.op = "update_skill_tree" /\ last.status = HTTP_409_CONFLICT
    /\ DOMAIN skills_db = {1, 2}
    /\ Parent(1) = None /\ Parent(2) = None
    /\ counters_db = EmptyDict
    /\ next_skill_id = 3

\* the nodes of an export, every nested node included, one after another
RECURSIVE Flatten(_)
Flatten(nodes) ==
    IF nodes = <<>> THEN <<>>
    ELSE <<Head(nodes)>> \o Flatten(Head(nodes).children) \o Flatten(Tail(nodes))

\* how many times the value v occurs in the sequence q
Occurrences(q, v) == Cardinality({i \in 1..Len(q) : q[i] = v})

\* name, unit, value and target of a stored counter
DataOf(c) == CounterData(counters_db[c].name, counters_db[c].unit,
                         counters_db[c].value, counters_db[c].target)

RECURSIVE SumLen(_)
SumLen(q) == IF q = <<>> THEN 0 ELSE Len(Head(q).counters) + SumLen(Tail(q))

\* C30: in an export the counters list of a node holds exactly the
\* counters whose skill_id is the node, with their name, unit, value and
\* target, and none of a descendant; every counter of an existing skill
\* is in the export once.
C30_ExportCountersPerNode ==
    last.op = "export_skill_tree" =>
        LET nodes == Flatten(last.body)
        IN /\ {nodes[i].id : i \in 1..Len(nodes)} = DOMAIN skills_db
           /\ Len(nodes) = Cardinality(DOMAIN skills_db)
           /\ \A i \in 1..Len(nodes) :
                LET own == {c \in DOMAIN counters_db : counters_db[c].skill_id = nodes[i].id}
                IN /\ Len(nodes[i].counters) = Cardinality(own)
                   /\ \A c \in own :
                        Occurrences(nodes[i].counters, DataOf(c))
                            = Cardinality({d \in own : DataOf(d) = DataOf(c)})
           /\ SumLen(nodes) = Cardinality({c \in DOMAIN counters_db :
                                              counters_db[c].skill_id \in DOMAIN skills_db})

\* an export of a skill with a counter whose child has a counter too
C30_Witness ==
    /\ last.op = "export_skill_tree"
    /\ Len(last.body) >= 1
    /\ Len(last.body[1].counters) = 1
    /\ Len(last.body[1].children) >= 1
    /\ Len(last.body[1].children[1].counters) = 1

\* ---------------------------------------------------------------------
\* update_skill: the null parent_id, and what an update writes
\* ---------------------------------------------------------------------
\* C31: an update whose parent_id is None keeps the skill's current
\* parent, whether the field was left out of the request or sent as an
\* explicit null.
C31_NullKeepsParent ==
    [][ last'.op = "update_skill" =>
        \A s \in DOMAIN skills_db,
           d \in {x \in SkillUpdateInputs : x.parent_id = None} :
            update_skill(s, d) =>
                /\ last'.status = HTTP_200_OK
                /\ skills_db'[s].parent_id = Parent(s) ]_vars

\* C32: a successful update of a skill writes that skill's record only:
\* its id stays, every other skill keeps its id, name and parent_id, the
\* allocators and the counters are untouched, and get_descendants of the
\* skill is the same set before and after.
C32_UpdateWritesOneRecord ==
    [][ (last'.op = "update_skill" /\ last'.status = HTTP_200_OK) =>
        LET s == last'.id
        IN /\ s \in DOMAIN skills_db
           /\ DOMAIN skills_db' = DOMAIN skills_db
           /\ skills_db'[s].id = s
           /\ \A k \in (DOMAIN skills_db) \ {s} : skills_db'[k] = skills_db[k]
           /\ get_descendants(s, ParentMap(skills_db'))
                = get_descendants(s, ParentMap(skills_db))
           /\ UNCHANGED <<next_skill_id, counters_db, next_counter_id>> ]_vars

\* skill 1, the first ever created, has been put under skill 3 by an
\* update, and skill 2 is still its child
C32_Witness ==
    /\ last.op = "update_skill" /\ last.status = HTTP_200_OK /\ last.id = 1
    /\ DOMAIN skills_db = {1, 2, 3}
    /\ Parent(1) = 3 /\ Parent(2) = 1 /\ Parent(3) = None

\* ---------------------------------------------------------------------
\* counters
\* ---------------------------------------------------------------------
\* C33: the value of every counter is >= 0 in every reachable state; an
\* increment of an existing counter writes value + amount, and when that
\* would be negative it is refused with 400 and nothing is written.
C33_ValueNeverNegative ==
    /\ [](\A c \in DOMAIN counters_db : counters_db[c].value >= 0)
    /\ [][ last'.op = "increment_counter" =>
           \A c \in DOMAIN counters_db, a \in IncrementAmounts :
               increment_counter(c, a) =>
                   IF counters_db[c].value + a < 0
                   THEN /\ last'.status = HTTP_400_BAD_REQUEST
                        /\ UNCHANGED store
                   ELSE /\ last'.status = HTTP_200_OK
                        /\ DOMAIN counters_db' = DOMAIN counters_db
                        /\ counters_db'[c] = [counters_db[c] EXCEPT !.value = @ + a]
                        /\ \A k \in (DOMAIN counters_db) \ {c} :
                              counters_db'[k] = counters_db[k]
                        /\ UNCHANGED <<skills_db, next_skill_id, next_counter_id>> ]_vars

\* an increment has just been refused and the counter still holds 1
C33_Witness ==
    /\ last.op = "increment_counter" /\ last.status = HTTP_400_BAD_REQUEST
    /\ last.id \in DOMAIN counters_db
    /\ counters_db[last.id].value = 1

\* ---------------------------------------------------------------------
\* requests in threads
\* ---------------------------------------------------------------------
\* C34: a read that runs while delete_skill(X) is in progress sees all of
\* {X} and the descendants of X, or none of them.
C34_DeleteIsAtomic ==
    last.op = "delete_skill_thread" =>
        \A r \in last.body.reads :
            \/ last.body.skills_to_delete \subseteq r
            \/ last.body.skills_to_delete \cap r = {}

\* C35: updates that run at the same time do not interleave their checks
\* and their writes: once every request has written, the parent pointers
\* are a forest.
C35_UpdatesSerialized ==
    DOMAIN InFlight = {} =>
        \A k \in DOMAIN skills_db :
            /\ Parent(k) # k
            /\ ReachesNull(ParentMap(skills_db), k, {})

\* ---------------------------------------------------------------------
\* the forest and the reads of the whole forest
\* ---------------------------------------------------------------------
Roots == {k \in DOMAIN skills_db : Parent(k) = None}

\* C36: every parent_id that is not null is the id of a skill of the
\* store; every skill is below exactly one root; and the tree, the export
\* and the roots summary have one top-level entry per root, no other
\* top-level entry, and every skill exactly once among their nodes.
C36_NoDanglingParent ==
    /\ \A k \in DOMAIN skills_db : Parent(k) # None => Parent(k) \in DOMAIN skills_db
    /\ \A k \in DOMAIN skills_db :
          Cardinality({r \in Roots : k \in Subtree(skills_db, r)}) = 1
    /\ last.op \in {"get_skill_tree", "export_skill_tree", "get_roots_summary"} =>
          LET nodes == Flatten(last.body)
          IN /\ Len(last.body) = Cardinality(Roots)
             /\ {last.body[i].id : i \in 1..Len(last.body)} = Roots
             /\ Len(nodes) = Cardinality(DOMAIN skills_db)
             /\ {nodes[i].id : i \in 1..Len(nodes)} = DOMAIN skills_db

\* the roots summary of a store with two roots, one of them, once a
\* child, with a child of its own
C36_Witness ==
    /\ last.op = "get_roots_summary"
    /\ DOMAIN skills_db = {1, 2, 3}
    /\ Roots = {1, 2} /\ Parent(3) = 2
    /\ Len(last.body) = 2
    /\ last.body[2].total_descendants = 1

\* ---------------------------------------------------------------------
\* the id allocators
\* ---------------------------------------------------------------------
\* C37: next_skill_id is greater than every id of the skill map and
\* next_counter_id greater than every id of the counter map; a successful
\* create of one skill or one counter uses an id that was free, leaves
\* the records that were there as they were, and makes the map one
\* larger.
C37_AllocatorsAboveIds ==
    /\ []( /\ \A k \in DOMAIN skills_db : k < next_skill_id
           /\ \A c \in DOMAIN counters_db : c < next_counter_id )
    /\ [][ /\ CreatedSkill =>
                /\ last'.id \notin DOMAIN skills_db
                /\ DOMAIN skills_db' = (DOMAIN skills_db) \cup {last'.id}
                /\ \A k \in DOMAIN skills_db : skills_db'[k] = skills_db[k]
                /\ Cardinality(DOMAIN skills_db') = Cardinality(DOMAIN skills_db) + 1
           /\ CreatedCounter =>
                /\ last'.id \notin DOMAIN counters_db
                /\ DOMAIN counters_db' = (DOMAIN counters_db) \cup {last'.id}
                /\ \A c \in DOMAIN counters_db : counters_db'[c] = counters_db[c]
                /\ Cardinality(DOMAIN counters_db') = Cardinality(DOMAIN counters_db) + 1 ]_vars

\* a skill has been created with id 3 after skill 2 was deleted, in a
\* store that holds a counter
C37_Witness ==
    /\ last.op = "create_subskill" /\ last.status = HTTP_201_CREATED /\ last.id = 3
    /\ DOMAIN skills_db = {1, 3}
    /\ DOMAIN counters_db # {}

\* ---------------------------------------------------------------------
\* the life of a skill id
\* ---------------------------------------------------------------------
\* an id that no skill has had yet
Unborn(k) == k >= next_skill_id

\* an id that a skill had and that no skill has now
Deleted(k) == k < next_skill_id /\ k \notin DOMAIN skills_db

\* requests that empty the store and start the ids again at 1
Restart == last'.op \in {"clear_all_app_data", "update_skill_tree"}

\* C38: an id goes from unborn to created to deleted and no further: a
\* skill appears only under an id that was unborn, a skill that
\* disappears leaves its id deleted, and a deleted id stays deleted, as
\* long as no clear-all and no replace-all import runs.
C38_DeletedIsFinal ==
    [][ (~ Restart) =>
        \A k \in SkillIds :
            /\ (k \notin DOMAIN skills_db /\ k \in DOMAIN skills_db') => Unborn(k)
            /\ (k \in DOMAIN skills_db /\ k \notin DOMAIN skills_db') =>
                    (last'.op = "delete_skill" /\ Deleted(k)')
            /\ Deleted(k) => Deleted(k)'
            /\ (k \in DOMAIN skills_db /\ k \in DOMAIN skills_db') =>
                    skills_db'[k].id = skills_db[k].id ]_vars

\* a root has been created with id 3 after the skills 1 and 2 were
\* deleted
C38_Witness ==
    /\ last.op = "create_root_skill" /\ last.status = HTTP_201_CREATED /\ last.id = 3
    /\ DOMAIN skills_db = {3}
    /\ Deleted(1) /\ Deleted(2)

\* ---------------------------------------------------------------------
\* an additive import that is refused
\* ---------------------------------------------------------------------
\* the place of the first top-level tree of the document whose name,
\* ignoring case, a root of the store or an earlier top-level tree has
RefusedAt(t) ==
    Min({i \in 1..Len(t) :
            \/ lower(t[i].name) \in RootNames(skills_db)
            \/ \E j \in 1..(i - 1) : lower(t[j].name) = lower(t[i].name)})

\* C39 as stated: an additive import that is refused leaves both maps and
\* both allocators as they were.
C39_RefusedImportNoEffect ==
    [][ (last'.op = "import_skill_tree" /\ last'.status = HTTP_409_CONFLICT)
            => UNCHANGED store ]_vars

\* C39 amended: an additive import that is refused at its first tree
\* leaves the store as it was; one that is refused at a later tree has
\* added the trees before that one, with their children and counters,
\* under new ids, and advanced the allocators by as many; in both cases
\* the records that were in the store are untouched and nothing of the
\* refused tree or of the trees after it is added.
C39_RefusedImportKeepsEarlierTrees ==
    [][ (last'.op = "import_skill_tree" /\ last'.status = HTTP_409_CONFLICT) =>
        \A t \in ImportSpecDocs :
            import_skill_tree(t) =>
                LET done == SubSeq(t, 1, RefusedAt(t) - 1)
                    new == next_skill_id .. (next_skill_id' - 1)
                    newc == next_counter_id .. (next_counter_id' - 1)
                    newdb == [k \in new |-> skills_db'[k]]
                    newcdb == [c \in newc |-> counters_db'[c]]
                IN /\ next_skill_id' = next_skill_id + NodeCount(done)
                   /\ next_counter_id' = next_counter_id + CounterCount(done)
                   /\ DOMAIN skills_db' = (DOMAIN skills_db) \cup new
                   /\ DOMAIN counters_db' = (DOMAIN counters_db) \cup newc
                   /\ \A k \in DOMAIN skills_db : skills_db'[k] = skills_db[k]
                   /\ \A c \in DOMAIN counters_db : counters_db'[c] = counters_db[c]
                   /\ Exported(newdb, newcdb) = done
                   /\ RefusedAt(t) = 1 => UNCHANGED store ]_vars

\* an additive import into a store with the root B has been refused at
\* its second tree and has left its first tree, with a counter
C39_Witness ==
    /\ last.op = "import_skill_tree" /\ last.status = HTTP_409_CONFLICT
    /\ DOMAIN skills_db = {1, 2}
    /\ skills_db[1].name = "B" /\ skills_db[2].name = "A"
    /\ Parent(1) = None /\ Parent(2) = None
    /\ DOMAIN counters_db = {1} /\ counters_db[1].skill_id = 2
    /\ next_skill_id = 3
====
